---------------------------- MODULE Spec2Model ----------------------------
(***************************************************************************)
(* Model of the browser-side utility libraries of this repository.         *)
(*                                                                         *)
(* Part 1: GoogleSheetsSecureAPI (src/gs_secure_api_cdn.js), the signed    *)
(* request client: constructor, configure, createSignature, request,       *)
(* requestAll, requestSequential, enableDebug, disableDebug.               *)
(*                                                                         *)
(* Part 2: the product validator and the category manager                 *)
(* (src/image_handle.js) and the data mapper (src/gs_data_mapper.js).      *)
(*                                                                         *)
(* The specifications share the variables, each holding the parts it does  *)
(* not model in their loaded state: Spec is a constructed client on which  *)
(* request, requestAll and requestSequential are called, FairSpec the same *)
(* with a timer that fires once it is due; in ConfigSpec configure,        *)
(* enableDebug and disableDebug are called on the client while a request() *)
(* runs; SigSpec is createSignature alone; CategorySpec is the category    *)
(* manager with its visibility operations and a window that is resized,    *)
(* SelectionSpec the category manager with its selection operations;       *)
(* ValidatorSpec is the product validator, MapperSpec the data mapper.     *)
(*                                                                         *)
(* JavaScript values are modelled as follows.                              *)
(*   - a string of the client is a TLA+ string; the order                  *)
(*     Array.prototype.sort() uses (UTF-16 code units) is given by the     *)
(*     table CodeUnits; a string of Part 2 is the sequence of its          *)
(*     characters;                                                         *)
(*   - an ordinary object is the sequence of its own enumerable            *)
(*     properties [k, v] in OwnPropertyKeys order: array-index keys in     *)
(*     ascending numeric order first, then the other keys in the order     *)
(*     they were first created;                                            *)
(*   - a decoded JSON body is [type, props] with type "object" or "null";  *)
(*   - an Error is [name, message, req], req being the request whose       *)
(*     execution created the object (its identity).                        *)
(***************************************************************************)
EXTENDS Integers, Sequences, FiniteSets, TLC

(***************************************************************************)
(* Bounds of the model.                                                    *)
(***************************************************************************)
\* longest caller-supplied params mapping (number of keys)
MaxParams == 2
\* longest list handed to requestAll and requestSequential
MaxList == 2
\* Date.now() returns a time from 0 to MaxClock
MaxClock == 1
\* longest product list handed to the category manager
MaxProducts == 2
\* longest array handed to validateBatch
MaxBatch == 2
\* most rows a sheet has below its header row
MaxRows == 2

(***************************************************************************)
(* Program constants.                                                      *)
(***************************************************************************)
\* constructor: timeout: config.timeout || 30000
DefaultTimeout == 30000

(***************************************************************************)
(* Strings.                                                                *)
(***************************************************************************)
\* the UTF-16 code units of the strings that occur as property keys
CodeUnits(s) ==
  CASE s = "action"    -> <<97, 99, 116, 105, 111, 110>>
    [] s = "Sheet"     -> <<83, 104, 101, 101, 116>>
    [] s = "2"         -> <<50>>
    [] s = "10"        -> <<49, 48>>
    [] s = "token"     -> <<116, 111, 107, 101, 110>>
    [] s = "timestamp" -> <<116, 105, 109, 101, 115, 116, 97, 109, 112>>
    [] s = "referrer"  -> <<114, 101, 102, 101, 114, 114, 101, 114>>
    [] s = "origin"    -> <<111, 114, 105, 103, 105, 110>>
    [] s = "signature" -> <<115, 105, 103, 110, 97, 116, 117, 114, 101>>

\* a < b in the order of Array.prototype.sort() without a comparator:
\* lexicographic on UTF-16 code units, a proper prefix first
StrLess(a, b) ==
  LET ca == CodeUnits(a)
      cb == CodeUnits(b)
  IN  \E i \in 1..(Len(cb)) :
        /\ \A j \in 1..(i - 1) : j <= Len(ca) /\ ca[j] = cb[j]
        /\ Len(ca) >= i - 1
        /\ (Len(ca) = i - 1 \/ ca[i] < cb[i])

\* the keys that are array indices (canonical numeric strings), which an
\* object enumerates first and in numeric order
IsArrayIndex(k) == k \in {"2", "10"}

\* the numeric value of an array-index key
IndexValue(k) == CASE k = "2" -> 2 [] k = "10" -> 10 [] OTHER -> 0 - 1

(***************************************************************************)
(* Ordinary objects.                                                       *)
(***************************************************************************)
EmptyObject == <<>>

RECURSIVE FindKey(_, _, _)
\* the position of key k in obj at or after position i, 0 when absent
FindKey(obj, k, i) ==
  IF i > Len(obj) THEN 0
  ELSE IF obj[i].k = k THEN i ELSE FindKey(obj, k, i + 1)

HasOwn(obj, k) == FindKey(obj, k, 1) # 0

\* obj[k] for a key the object has
Get(obj, k) == obj[FindKey(obj, k, 1)].v

\* Object.keys(obj)
ObjectKeys(obj) == [i \in 1..Len(obj) |-> obj[i].k]

\* the number of properties that precede a new key k in OwnPropertyKeys
\* order: for an array index the smaller array indices, otherwise all
InsertAt(obj, k) ==
  IF IsArrayIndex(k)
  THEN Cardinality({i \in 1..Len(obj) :
                      IsArrayIndex(obj[i].k) /\ IndexValue(obj[i].k) < IndexValue(k)})
  ELSE Len(obj)

\* obj[k] = v: an existing property keeps its place, a new one is created
SetProp(obj, k, v) ==
  LET p == FindKey(obj, k, 1)
  IN  IF p # 0
      THEN [obj EXCEPT ![p] = [k |-> k, v |-> v]]
      ELSE LET n == InsertAt(obj, k)
           IN  SubSeq(obj, 1, n) \o <<[k |-> k, v |-> v]>> \o SubSeq(obj, n + 1, Len(obj))

RECURSIVE AssignAll(_, _, _)
\* target after copying the properties i.. of the list props into it, in
\* order: the object spread {...target, ...props}
AssignAll(target, props, i) ==
  IF i > Len(props) THEN target
  ELSE AssignAll(SetProp(target, props[i].k, props[i].v), props, i + 1)

\* the object a caller gets by creating the properties of the list ins
\* one after the other on an empty object
ObjectFrom(ins) == AssignAll(EmptyObject, ins, 1)

(***************************************************************************)
(* createSignature                                                         *)
(***************************************************************************)
RECURSIVE InsertSorted(_, _)
\* the sorted list keys with k put at its place
InsertSorted(keys, k) ==
  IF keys = <<>> THEN <<k>>
  ELSE IF StrLess(k, Head(keys)) THEN <<k>> \o keys
       ELSE <<Head(keys)>> \o InsertSorted(Tail(keys), k)

RECURSIVE SortFrom(_, _, _)
SortFrom(keys, i, acc) ==
  IF i > Len(keys) THEN acc ELSE SortFrom(keys, i + 1, InsertSorted(acc, keys[i]))

\* an ordering bug: the keys are left in the object's enumeration order
SortKeysUnsorted(keys) == keys

\* keys.sort()
SortKeys(keys) == SortFrom(keys, 1, <<>>)

RECURSIVE Join(_, _, _)
\* parts.join(sep), from part i on
Join(parts, sep, i) ==
  IF i > Len(parts) THEN ""
  ELSE IF i = Len(parts) THEN parts[i]
       ELSE parts[i] \o sep \o Join(parts, sep, i + 1)

\* sortedKeys.map(key => `${key}=${params[key]}`).join('&')
SignatureString(params) ==
  LET sortedKeys == SortKeys(ObjectKeys(params))
  IN  Join([i \in 1..Len(sortedKeys) |->
              sortedKeys[i] \o "=" \o Get(params, sortedKeys[i])], "&", 1)

\* CryptoJS.HmacSHA256(message, secret).toString(): an ideal keyed digest,
\* a different string for every different (secret, message)
computeHMAC(message, secret) == "hmac[" \o secret \o "](" \o message \o ")"

createSignature(params, secret) == computeHMAC(SignatureString(params), secret)


(***************************************************************************)
(* State.                                                                  *)
(***************************************************************************)
VARIABLES
  config,     \* this.config of the client
  call,       \* the top-level operation in progress and its promise
  reqs,       \* the request() executions of that operation, by position
  fetchLog,   \* history: the requests whose fetch() was issued, in order
  settleLog,  \* history: the requests that settled, in order
  cryptoJS,   \* whether the global CryptoJS is defined
  confOp,     \* the last of constructor, configure, enableDebug, disableDebug
              \* that was called: its argument, its warnings, what it threw
  sigOrig,    \* createSignature alone: the order the mapping was first built in
  sigIns,     \* createSignature alone: the order it was last built in
  sigSecret,  \* createSignature alone: the secret
  sigFirst,   \* createSignature alone: string and signature, first build
  sigLast,    \* createSignature alone: string and signature, last build
  state,      \* category manager: this.state
  catConfig,  \* category manager: this.config, the settings the model reads
  localStorage, \* category manager: the item stored under storageKey
  innerWidth, \* category manager: window.innerWidth
  measuredWidth, \* category manager: the width updateVisibility read last
  validatorConfig, \* product validator: this.config
  validatorCall, \* product validator: the last call and what it returned
  sheet,      \* data mapper: the argument of the last mapSheetToObjects call
  objects     \* data mapper: what that call returned

catVars == <<state, catConfig, localStorage, innerWidth, measuredWidth>>
validatorVars == <<validatorConfig, validatorCall>>
mapperVars == <<sheet, objects>>
libVars == <<catVars, validatorVars, mapperVars>>
vars == <<config, call, reqs, fetchLog, settleLog, cryptoJS, confOp,
          sigOrig, sigIns, sigSecret, sigFirst, sigLast, libVars>>
clientVars == <<config, call, reqs, fetchLog, settleLog, cryptoJS, confOp>>
sigVars == <<sigOrig, sigIns, sigSecret, sigFirst, sigLast>>

(***************************************************************************)
(* Inputs.                                                                 *)
(***************************************************************************)
\* the times at which an operation is called: what Date.now() returns
Times == 0..MaxClock

\* window.location.origin of the calling page
PageOrigin == "https://shop.test"

\* keys a caller may put in params: plain ones, array indices, and names
\* the client itself injects
CallerKeys == {"action", "2", "10", "origin", "signature"}
CallerValues == {"x"}

\* the lists l extended by one property whose key l does not hold yet
Extensions(l, keys, values) ==
  {Append(l, [k |-> k, v |-> v]) :
     k \in keys \ {l[i].k : i \in 1..Len(l)}, v \in values}

RECURSIVE InsertionLists(_, _, _)
\* the property lists of at most n entries with pairwise different keys:
\* the orders in which a caller can create the properties of an object
InsertionLists(keys, values, n) ==
  IF n = 0 THEN {<<>>}
  ELSE LET shorter == InsertionLists(keys, values, n - 1)
       IN  shorter \cup
           UNION {Extensions(l, keys, values) : l \in {s \in shorter : Len(s) = n - 1}}

\* the params of single request() calls, as the caller built them
ParamLists == InsertionLists(CallerKeys, CallerValues, MaxParams)

\* the params that occur in the lists handed to requestAll
ListParams ==
  { <<[k |-> "action", v |-> "x"]>>,
    <<[k |-> "signature", v |-> "x"], [k |-> "action", v |-> "x"]>> }

\* params whose caller used the names the client injects itself
ReservedParams ==
  { <<[k |-> "timestamp", v |-> "x"], [k |-> "action", v |-> "x"],
      [k |-> "token", v |-> "x"], [k |-> "origin", v |-> "x"],
      [k |-> "referrer", v |-> "x"]>> }

\* the lists handed to requestAll and requestSequential: at most MaxList
\* params
RequestLists == UNION {[1..n -> ListParams] : n \in 0..MaxList}

Url == "https://script.test/exec"
UrlWithQuery == "https://script.test/exec?v=1"
BadUrl == "script.test/exec"

\* whether new URL(u) succeeds
IsValidUrl(u) == u \in {Url, UrlWithQuery}

\* the query parameters the URL u holds before anything is appended
UrlSearch(u) == IF u = UrlWithQuery THEN <<[k |-> "v", v |-> "1"]>> ELSE <<>>

\* what the constructor is called with; "" and 0 stand for a field that is
\* missing or falsy
ConstructorArgs ==
  [scriptUrl : {"", Url}, apiToken : {"", "T1"}, hmacSecret : {"", "S1"},
   debug : {FALSE}, timeout : {0}]
  \cup
  [scriptUrl : {UrlWithQuery, BadUrl}, apiToken : {"T1"}, hmacSecret : {"S1"},
   debug : {FALSE}, timeout : {0}]
  \cup
  [scriptUrl : {Url}, apiToken : {"T1"}, hmacSecret : {"S1"},
   debug : {TRUE}, timeout : {1}]

\* the fields of this.config
ConfigFields == {"scriptUrl", "apiToken", "hmacSecret", "debug", "timeout"}

\* the values of the fields that an argument of configure does not name
Unnamed ==
  [scriptUrl |-> "", apiToken |-> "", hmacSecret |-> "", debug |-> FALSE,
   timeout |-> 0]

\* an object with the own properties named, valued as in value
Partial(named, value) ==
  [named |-> named,
   value |-> [scriptUrl  |-> IF "scriptUrl" \in named THEN value.scriptUrl ELSE "",
              apiToken   |-> IF "apiToken" \in named THEN value.apiToken ELSE "",
              hmacSecret |-> IF "hmacSecret" \in named THEN value.hmacSecret ELSE "",
              debug      |-> IF "debug" \in named THEN value.debug ELSE FALSE,
              timeout    |-> IF "timeout" \in named THEN value.timeout ELSE 0]]

\* what configure is called with
Partials ==
  { Partial({}, Unnamed),
    Partial({"hmacSecret", "timeout"}, [Unnamed EXCEPT !.hmacSecret = "S2", !.timeout = 5]),
    Partial({"timeout"}, [Unnamed EXCEPT !.timeout = 0]),
    Partial({"scriptUrl", "apiToken", "hmacSecret"},
            [Unnamed EXCEPT !.scriptUrl = Url, !.apiToken = "T1", !.hmacSecret = "S1"]),
    Partial({"apiToken", "debug"}, [Unnamed EXCEPT !.debug = TRUE]) }

(***************************************************************************)
(* Responses and errors.                                                   *)
(***************************************************************************)
NoBody == [type |-> "undefined", props |-> <<>>]
JsonNull == [type |-> "null", props |-> <<>>]
\* a response body that is not JSON
Undecodable == [type |-> "invalid", props |-> <<>>]
JsonObject(props) == [type |-> "object", props |-> props]

SuccessBody ==
  JsonObject(<<[k |-> "status", v |-> "success"], [k |-> "data", v |-> "[1,2,3]"]>>)
SuccessBody2 ==
  JsonObject(<<[k |-> "data", v |-> "[]"], [k |-> "status", v |-> "success"],
               [k |-> "message", v |-> "ok"]>>)
BadTokenBody ==
  JsonObject(<<[k |-> "status", v |-> "error"], [k |-> "message", v |-> "bad token"]>>)
NoMessageBody == JsonObject(<<[k |-> "status", v |-> "error"]>>)
EmptyMessageBody ==
  JsonObject(<<[k |-> "status", v |-> "error"], [k |-> "message", v |-> ""]>>)
NoStatusBody == JsonObject(<<[k |-> "message", v |-> "success"]>>)

\* what a response can carry as its body
WireBodies ==
  {SuccessBody, SuccessBody2, BadTokenBody, NoMessageBody, EmptyMessageBody,
   NoStatusBody, JsonNull, Undecodable}

\* the response status codes of the model
StatusCodes == {200, 404, 500}

\* the responses (status, body) a request of the operation kind can get
Responses(kind) ==
  IF kind = "request"
  THEN StatusCodes \X WireBodies
  ELSE {<<200, SuccessBody>>, <<200, SuccessBody2>>, <<200, BadTokenBody>>,
        <<500, SuccessBody>>}

\* response.ok
ResponseOk(status) == status >= 200 /\ status <= 299

NoError == [name |-> "", message |-> "", req |-> 0]
ConfigIncompleteMessage ==
  "API configuration incomplete. Please set scriptUrl, apiToken, and hmacSecret."
ConfigIncompleteError(i) ==
  [name |-> "Error", message |-> ConfigIncompleteMessage, req |-> i]
\* new URL(scriptUrl) on a string that is no URL
InvalidUrlError(i) == [name |-> "TypeError", message |-> "Invalid URL", req |-> i]
\* what fetch rejects with when its signal is aborted
AbortError(i) ==
  [name |-> "AbortError", message |-> "The operation was aborted.", req |-> i]
\* what fetch, or reading the body, rejects with on a network fault
NetworkFault(i) == [name |-> "TypeError", message |-> "Failed to fetch", req |-> i]
\* what response.json() rejects with on a body that is not JSON
JsonSyntaxError(i) ==
  [name |-> "SyntaxError", message |-> "Unexpected token", req |-> i]
\* reading data.status of null
NullStatusError(i) ==
  [name |-> "TypeError", message |-> "Cannot read properties of null", req |-> i]
TimeoutError(i) == [name |-> "Error", message |-> "Request timeout", req |-> i]
HttpError(i, status) ==
  [name |-> "Error", message |-> "HTTP error! Status: " \o ToString(status), req |-> i]
\* new Error(data.message || 'Request failed')
RequestFailedError(i, data) ==
  [name |-> "Error",
   message |-> IF HasOwn(data.props, "message") /\ Get(data.props, "message") # ""
               THEN Get(data.props, "message")
               ELSE "Request failed",
   req |-> i]

(***************************************************************************)
(* The client: constructor and request().                                  *)
(***************************************************************************)
\* new GoogleSheetsSecureAPI(args): this.config
Constructor(args) ==
  [scriptUrl  |-> IF args.scriptUrl = "" THEN "" ELSE args.scriptUrl,
   apiToken   |-> IF args.apiToken = "" THEN "" ELSE args.apiToken,
   hmacSecret |-> IF args.hmacSecret = "" THEN "" ELSE args.hmacSecret,
   debug      |-> IF args.debug THEN TRUE ELSE FALSE,
   timeout    |-> IF args.timeout = 0 THEN DefaultTimeout ELSE args.timeout]

\* the text of the warning about field f
WarningFor(f) == "GoogleSheetsSecureAPI: " \o f \o " not configured"

\* new Error('CryptoJS is required. ...')
MissingCryptoJS ==
  [name |-> "Error",
   message |-> "CryptoJS is required. Please include: https://cdnjs.cloudflare.com/ajax/libs/crypto-js/4.1.1/crypto-js.min.js",
   req |-> 0]

\* a validation that stops at the first missing field
validateConfigFirstOnly(cfg, defined) ==
  [warnings |-> IF cfg.scriptUrl = "" THEN <<WarningFor("scriptUrl")>>
                ELSE IF cfg.apiToken = "" THEN <<WarningFor("apiToken")>>
                ELSE IF cfg.hmacSecret = "" THEN <<WarningFor("hmacSecret")>>
                ELSE <<>>,
   thrown |-> IF ~defined THEN MissingCryptoJS ELSE NoError]

\* validateConfig() on this.config = cfg, with typeof CryptoJS !==
\* 'undefined' being defined: the console.warn calls it makes, in order,
\* and what it throws after them
validateConfig(cfg, defined) ==
  [warnings |-> (IF cfg.scriptUrl = "" THEN <<WarningFor("scriptUrl")>> ELSE <<>>)
                \o (IF cfg.apiToken = "" THEN <<WarningFor("apiToken")>> ELSE <<>>)
                \o (IF cfg.hmacSecret = "" THEN <<WarningFor("hmacSecret")>> ELSE <<>>),
   thrown |-> IF ~defined THEN MissingCryptoJS ELSE NoError]

\* the record of a call of constructor or configure, name, with argument
\* arg, that left this.config = cfg
ConfOp(name, arg, cfg, defined) ==
  [name |-> name, named |-> arg.named, value |-> arg.value,
   warnings |-> validateConfig(cfg, defined).warnings,
   thrown |-> validateConfig(cfg, defined).thrown]

\* an assignment that takes the argument for the whole configuration
MergeReplacing(cfg, partial) == partial.value

\* { ...this.config, ...config }
Merge(cfg, partial) ==
  [scriptUrl  |-> IF "scriptUrl" \in partial.named
                  THEN partial.value.scriptUrl ELSE cfg.scriptUrl,
   apiToken   |-> IF "apiToken" \in partial.named
                  THEN partial.value.apiToken ELSE cfg.apiToken,
   hmacSecret |-> IF "hmacSecret" \in partial.named
                  THEN partial.value.hmacSecret ELSE cfg.hmacSecret,
   debug      |-> IF "debug" \in partial.named
                  THEN partial.value.debug ELSE cfg.debug,
   timeout    |-> IF "timeout" \in partial.named
                  THEN partial.value.timeout ELSE cfg.timeout]

\* this.config.debug = flag
SetDebug(cfg, flag) == [cfg EXCEPT !.debug = flag]

\* a guard that looks at the endpoint only
ConfigIncompleteUrlOnly(cfg) == cfg.scriptUrl = ""

\* the guard of request(): a required field is empty
ConfigIncomplete(cfg) ==
  cfg.scriptUrl = "" \/ cfg.apiToken = "" \/ cfg.hmacSecret = ""

\* the object literal {...params, token, timestamp, referrer, origin}
\* an object literal that spreads params after the injected properties
RequestParamsCallerWins(params, cfg, t) ==
  LET p0 == SetProp(EmptyObject, "token", cfg.apiToken)
      p1 == SetProp(p0, "timestamp", ToString(t))
      p2 == SetProp(p1, "referrer", PageOrigin)
      p3 == SetProp(p2, "origin", PageOrigin)
  IN  AssignAll(p3, params, 1)

RequestParams(params, cfg, t) ==
  LET p0 == AssignAll(EmptyObject, params, 1)
      p1 == SetProp(p0, "token", cfg.apiToken)
      p2 == SetProp(p1, "timestamp", ToString(t))
      p3 == SetProp(p2, "referrer", PageOrigin)
  IN  SetProp(p3, "origin", PageOrigin)

\* requestParams.signature = this.createSignature(requestParams, secret)
WithSignature(requestParams, secret) ==
  SetProp(requestParams, "signature", createSignature(requestParams, secret))

\* a serialization that puts the signature first
AppendAllSignatureFirst(search, requestParams) ==
  search \o <<[k |-> "signature", v |-> Get(requestParams, "signature")]>>
         \o SelectSeq(requestParams, LAMBDA e : e.k # "signature")

\* Object.keys(requestParams).forEach(key => url.searchParams.append(...)):
\* the query of the URL afterwards
AppendAll(search, requestParams) == search \o requestParams

\* a handler that takes every fault of the fetch call for a timeout
CatchNormalizingAll(i, error) ==
  IF error.name \in {"AbortError", "TypeError"} THEN TimeoutError(i) ELSE error

\* a handler that rethrows whatever it catches
CatchRethrowAll(i, error) == error

\* the catch block of request(): what the request rejects with
Catch(i, error) ==
  IF error.name = "AbortError" THEN TimeoutError(i) ELSE error

\* a request() execution that has not started: ins is the order in which
\* the caller created the properties of params, pc is where the execution
\* stands, cfg the configuration it read when it started, at what
\* Date.now() returned then, sent the query
\* of the URL handed to fetch, logged the console.log calls it made,
\* calls how many times it called fetch,
\* timer the state of the setTimeout timer,
\* delay what it was set to, aborted the signal of the AbortController,
\* status the status of the response received and wire the JSON value its
\* body encodes, data what response.json() gave,
\* result and error what the promise settled with
NewRequest(ins, cfg, t) ==
  [ins |-> ins, params |-> ObjectFrom(ins), pc |-> "idle", cfg |-> cfg,
   at |-> t, sent |-> <<>>, logged |-> <<>>, fetched |-> FALSE, calls |-> 0,
   timer |-> "none", delay |-> 0,
   aborted |-> FALSE, status |-> 0, wire |-> NoBody, data |-> NoBody,
   result |-> NoBody, error |-> NoError]

Reject(r, error) == [r EXCEPT !.pc = "rejected", !.error = error]
Resolve(r, data) == [r EXCEPT !.pc = "resolved", !.result = data]

\* request(params) up to its first await, run as request i at time t
\* under configuration cfg
StartRequest(i, ins, cfg, t) ==
  LET r == NewRequest(ins, cfg, t)
  IN  IF ConfigIncomplete(cfg)
      THEN Reject(r, ConfigIncompleteError(i))
      ELSE LET requestParams ==
                 WithSignature(RequestParams(r.params, cfg, t), cfg.hmacSecret)
           IN  IF ~IsValidUrl(cfg.scriptUrl)
               THEN Reject(r, Catch(i, InvalidUrlError(i)))
               ELSE [r EXCEPT !.pc = "fetching",
                              !.sent = AppendAll(UrlSearch(cfg.scriptUrl), requestParams),
                              !.logged = IF cfg.debug
                                         THEN <<"Making request to:", "Request params:">>
                                         ELSE <<>>,
                              !.fetched = TRUE,
                              !.calls = r.calls + 1,
                              !.timer = "pending",
                              !.delay = cfg.timeout]

\* a response handler that gives up quietly on an error status
AfterResponseSwallowing(r, i, status, wire) ==
  LET r1 == [r EXCEPT !.timer = "cleared", !.status = status, !.wire = wire]
  IN  IF ~ResponseOk(status) THEN Resolve(r1, NoBody) ELSE [r1 EXCEPT !.pc = "reading"]

\* a response handler that calls fetch again on a server error
AfterResponseRetrying(r, i, status, wire) ==
  LET r1 == [r EXCEPT !.timer = "cleared", !.status = status, !.wire = wire]
  IN  IF ~ResponseOk(status)
      THEN IF status >= 500
           THEN [r EXCEPT !.calls = r.calls + 1]
           ELSE Reject(r1, Catch(i, HttpError(i, status)))
      ELSE [r1 EXCEPT !.pc = "reading"]

\* a response handler that decodes the body whatever the status
AfterResponseNoStatusCheck(r, i, status, wire) ==
  [r EXCEPT !.timer = "cleared", !.status = status, !.wire = wire, !.pc = "reading"]

\* request() from the settling of fetch with a response to the next await:
\* clearTimeout, then the response.ok test
AfterResponse(r, i, status, wire) ==
  LET r1 == [r EXCEPT !.timer = "cleared", !.status = status, !.wire = wire]
  IN  IF ~ResponseOk(status)
      THEN Reject(r1, Catch(i, HttpError(i, status)))
      ELSE [r1 EXCEPT !.pc = "reading"]

\* a handler that resolves with a trimmed copy of the body
AfterJsonDataOnly(r, i, data, debug) ==
  LET r1 == [r EXCEPT !.data = data]
  IN  IF data.type = "null" THEN Reject(r1, Catch(i, NullStatusError(i)))
      ELSE IF HasOwn(data.props, "status") /\ Get(data.props, "status") = "success"
           THEN Resolve(r1, JsonObject(SelectSeq(data.props, LAMBDA e : e.k = "data")))
           ELSE Reject(r1, Catch(i, RequestFailedError(i, data)))

\* a handler that resolves whatever the status of the body
AfterJsonAlwaysResolve(r, i, data, debug) ==
  LET r1 == [r EXCEPT !.data = data]
  IN  IF data.type = "null" THEN Reject(r1, Catch(i, NullStatusError(i)))
      ELSE Resolve(r1, data)

\* a handler that logs under the debug flag the request started with
AfterJsonFlagAtStart(r, i, data, debug) ==
  LET r1 == [r EXCEPT !.data = data]
  IN  IF data.type = "null" THEN Reject(r1, Catch(i, NullStatusError(i)))
      ELSE IF HasOwn(data.props, "status") /\ Get(data.props, "status") = "success"
           THEN Resolve([r1 EXCEPT !.logged = IF r.cfg.debug
                                              THEN Append(r1.logged, "Request successful:")
                                              ELSE r1.logged],
                        data)
           ELSE Reject(r1, Catch(i, RequestFailedError(i, data)))

\* a handler that returns the body only while debugging
AfterJsonDebugOnly(r, i, data, debug) ==
  LET r1 == [r EXCEPT !.data = data]
  IN  IF data.type = "null" THEN Reject(r1, Catch(i, NullStatusError(i)))
      ELSE IF HasOwn(data.props, "status") /\ Get(data.props, "status") = "success"
           THEN IF debug
                THEN Resolve([r1 EXCEPT !.logged = Append(r1.logged, "Request successful:")],
                             data)
                ELSE Resolve(r1, NoBody)
           ELSE Reject(r1, Catch(i, RequestFailedError(i, data)))

\* request() after response.json() gave data, while this.config.debug is
\* debug: the data.status test
AfterJson(r, i, data, debug) ==
  LET r1 == [r EXCEPT !.data = data]
  IN  IF data.type = "null" THEN Reject(r1, Catch(i, NullStatusError(i)))
      ELSE IF HasOwn(data.props, "status") /\ Get(data.props, "status") = "success"
           THEN Resolve([r1 EXCEPT !.logged = IF debug
                                              THEN Append(r1.logged, "Request successful:")
                                              ELSE r1.logged],
                        data)
           ELSE Reject(r1, Catch(i, RequestFailedError(i, data)))

Settled(r) == r.pc \in {"resolved", "rejected"}

(***************************************************************************)
(* The top-level operation and, for requestAll, the Promise.all promise.   *)
(***************************************************************************)
NoCall ==
  [kind |-> "none", state |-> "none", values |-> <<>>, remaining |-> 0,
   error |-> NoError]

\* the promise of a request(params) call: that of its one execution
RequestCall ==
  [kind |-> "request", state |-> "pending", values |-> <<>>, remaining |-> 1,
   error |-> NoError]

\* Promise.all over n promises, before any of them settled
PromiseAll(n) ==
  [kind |-> "requestAll", state |-> IF n = 0 THEN "resolved" ELSE "pending",
   values |-> [j \in 1..n |-> NoBody], remaining |-> n, error |-> NoError]

\* a Promise.all that collects the values in the order of completion
AllSettledAppending(c, i, r) ==
  IF r.pc = "rejected"
  THEN IF c.state = "pending" THEN [c EXCEPT !.state = "rejected", !.error = r.error]
       ELSE c
  ELSE LET done == Len(c.values) - c.remaining
           c1 == [c EXCEPT !.values[done + 1] = r.result,
                           !.remaining = c.remaining - 1]
       IN  IF c1.remaining = 0 /\ c.state = "pending"
           THEN [c1 EXCEPT !.state = "resolved"] ELSE c1

\* a Promise.all that waits for every promise before it rejects
AllSettledWaiting(c, i, r) ==
  LET c1 == [c EXCEPT !.remaining = c.remaining - 1,
                      !.values[i] = r.result,
                      !.error = IF r.pc = "rejected" /\ c.error = NoError
                                THEN r.error ELSE c.error]
  IN  IF c1.remaining = 0
      THEN [c1 EXCEPT !.state = IF c1.error = NoError THEN "resolved" ELSE "rejected"]
      ELSE c1

\* Promise.all when its promise i settles as r: the first rejection
\* rejects it, the last fulfilment resolves it with the values by position
AllSettled(c, i, r) ==
  IF r.pc = "rejected"
  THEN IF c.state = "pending" THEN [c EXCEPT !.state = "rejected", !.error = r.error]
       ELSE c
  ELSE LET c1 == [c EXCEPT !.values[i] = r.result, !.remaining = c.remaining - 1]
       IN  IF c1.remaining = 0 /\ c.state = "pending"
           THEN [c1 EXCEPT !.state = "resolved"] ELSE c1

\* the promise of requestSequential(requestsArray) over n params, with
\* results empty, before its loop awaits anything
SequentialCall(n) ==
  [kind |-> "requestSequential", state |-> IF n = 0 THEN "resolved" ELSE "pending",
   values |-> <<>>, remaining |-> n, error |-> NoError]

\* a loop that catches the failure of a request and goes on
LoopAfterSkipping(c, i, r) ==
  LET c1 == [c EXCEPT !.values = Append(c.values, r.result),
                      !.remaining = c.remaining - 1,
                      !.error = IF r.pc = "rejected" /\ c.error = NoError
                                THEN r.error ELSE c.error]
  IN  IF c1.remaining = 0
      THEN [c1 EXCEPT !.state = IF c1.error = NoError THEN "resolved" ELSE "rejected"]
      ELSE c1

\* the loop of requestSequential when the request i it awaits settles as
\* r: a rejection is thrown out of the function, a result is pushed, and
\* after the last one results is returned
LoopAfter(c, i, r) ==
  IF r.pc = "rejected"
  THEN [c EXCEPT !.state = "rejected", !.error = r.error]
  ELSE LET c1 == [c EXCEPT !.values = Append(c.values, r.result),
                           !.remaining = c.remaining - 1]
       IN  IF c1.remaining = 0 THEN [c1 EXCEPT !.state = "resolved"] ELSE c1

\* the operation's promise after its request i moved to r
CallAfter(c, i, r) ==
  IF ~Settled(r) THEN c
  ELSE IF c.kind = "request"
       THEN [c EXCEPT !.state = r.pc, !.error = r.error, !.remaining = 0]
       ELSE IF c.kind = "requestSequential"
            THEN LoopAfter(c, i, r)
            ELSE AllSettled(c, i, r)

RECURSIVE CallAfterAll(_, _, _)
\* the operation's promise after the reactions to its requests i.. ran,
\* in order
CallAfterAll(c, rs, i) ==
  IF i > Len(rs) THEN c ELSE CallAfterAll(CallAfter(c, i, rs[i]), rs, i + 1)

\* the positions of rs, in order, whose request issued its fetch
FetchedPositions(rs) ==
  SelectSeq([i \in 1..Len(rs) |-> i], LAMBDA i : rs[i].fetched)

\* the positions of rs, in order, whose request has settled
SettledPositions(rs) ==
  SelectSeq([i \in 1..Len(rs) |-> i], LAMBDA i : Settled(rs[i]))

\* requestsArray.map(params => this.request(params)): every request runs
\* to its first await before map returns
StartAll(list, cfg, t) == [i \in 1..Len(list) |-> StartRequest(i, list[i], cfg, t)]

\* a loop that calls request() for all the params without awaiting
StartFirstNoAwait(list, cfg, t) ==
  [i \in 1..Len(list) |-> StartRequest(i, list[i], cfg, t)]

\* requestSequential up to its first await: the loop calls request() for
\* the first params only, the others wait for their turn
StartFirst(list, cfg, t) ==
  [i \in 1..Len(list) |->
     IF i = 1 THEN StartRequest(1, list[1], cfg, t) ELSE NewRequest(list[i], cfg, t)]

\* the requests of operation c after request i of rs moved to r at time
\* t: when the loop of requestSequential goes on after r, it calls
\* request() for the next params, under the configuration cfg of then
RequestsAfter(c, rs, i, r, cfg, t) ==
  LET rs1 == [rs EXCEPT ![i] = r]
  IN  IF /\ c.kind = "requestSequential"
         /\ Settled(r)
         /\ CallAfter(c, i, r).state = "pending"
         /\ i < Len(rs)
      THEN [rs1 EXCEPT ![i + 1] = StartRequest(i + 1, rs[i + 1].ins, cfg, t)]
      ELSE rs1

\* the operation's promise after the step in which request i moved and
\* the requests old became new
CallAfterStep(c, old, new, i) ==
  LET c1 == CallAfter(c, i, new[i])
  IN  IF i < Len(new) /\ new[i + 1] # old[i + 1]
      THEN CallAfter(c1, i + 1, new[i + 1])
      ELSE c1

\* the positions, in order, whose request called fetch in the step from
\* old to new
NewlyFetched(old, new) ==
  SelectSeq([j \in 1..Len(new) |-> j], LAMBDA j : new[j].calls > old[j].calls)

\* the positions, in order, whose request settled in the step from old
\* to new
NewlySettled(old, new) ==
  SelectSeq([j \in 1..Len(new) |-> j], LAMBDA j : Settled(new[j]) /\ ~Settled(old[j]))

\* what Date.now() can return at or after the time t0
LaterTimes(t0) == {t \in Times : t >= t0}

(***************************************************************************)
(* Actions of the client.                                                  *)
(***************************************************************************)
\* new GoogleSheetsSecureAPI(args) was called, with CryptoJS defined or not
Constructed(args, defined) ==
  /\ config = Constructor(args)
  /\ cryptoJS = defined
  /\ confOp = ConfOp("constructor", [named |-> {}, value |-> args], config, defined)
  /\ call = NoCall
  /\ reqs = <<>>
  /\ fetchLog = <<>>
  /\ settleLog = <<>>

ClientInit ==
  \E args \in ConstructorArgs, defined \in BOOLEAN : Constructed(args, defined)

\* the constructor returned: there is a client to call
Exists == ~(confOp.name = "constructor" /\ confOp.thrown # NoError)

\* the operation starts with the request executions rs
Begin(c, rs) ==
  /\ Exists
  /\ call.kind = "none"
  /\ reqs' = rs
  /\ call' = CallAfterAll(c, rs, 1)
  /\ fetchLog' = FetchedPositions(rs)
  /\ settleLog' = SettledPositions(rs)
  /\ UNCHANGED <<config, cryptoJS, confOp, sigVars, libVars>>

\* request(params) with params among inputs, called at time t
RequestWith(inputs) ==
  \E ins \in inputs, t \in Times :
    Begin(RequestCall, <<StartRequest(1, ins, config, t)>>)

\* request(params)
Request == RequestWith(ParamLists)

\* request(params) with the params that occur in lists
RequestListed == RequestWith(ListParams \cup ReservedParams)

\* requestAll(requestsArray), called at time t
RequestAll ==
  \E list \in RequestLists, t \in Times :
    Begin(PromiseAll(Len(list)), StartAll(list, config, t))

\* requestSequential(requestsArray), called at time t
RequestSequential ==
  \E list \in RequestLists, t \in Times :
    Begin(SequentialCall(Len(list)), StartFirst(list, config, t))

\* request i continues and comes to r, at time t; the reactions to its
\* settling run with it
Continue(i, r) ==
  \E t \in LaterTimes(reqs[i].at) :
    /\ reqs' = RequestsAfter(call, reqs, i, r, config, t)
    /\ call' = CallAfterStep(call, reqs, reqs', i)
    /\ fetchLog' = fetchLog \o NewlyFetched(reqs, reqs')
    /\ settleLog' = settleLog \o NewlySettled(reqs, reqs')
    /\ UNCHANGED <<config, cryptoJS, confOp, sigVars, libVars>>

\* the network answers the fetch of request i
FetchResponds ==
  \E i \in 1..Len(reqs) :
    /\ reqs[i].pc = "fetching"
    /\ \E resp \in Responses(call.kind) :
         Continue(i, AfterResponse(reqs[i], i, resp[1], resp[2]))

\* the fetch of request i fails: no connection, DNS, CORS
FetchFails ==
  \E i \in 1..Len(reqs) :
    /\ reqs[i].pc = "fetching"
    /\ Continue(i, Reject(reqs[i], Catch(i, NetworkFault(i))))

\* the timer of request i fires: controller.abort(), which rejects a fetch
\* that is still pending
TimerFires ==
  \E i \in 1..Len(reqs) :
    /\ reqs[i].timer = "pending"
    /\ LET r1 == [reqs[i] EXCEPT !.timer = "fired", !.aborted = TRUE]
       IN  IF reqs[i].pc = "fetching"
           THEN Continue(i, Reject(r1, Catch(i, AbortError(i))))
           ELSE /\ reqs' = [reqs EXCEPT ![i] = r1]
                /\ UNCHANGED <<config, cryptoJS, confOp, call, fetchLog, settleLog,
                               sigVars, libVars>>

\* response.json() of request i gives the decoded body
BodyDecoded ==
  \E i \in 1..Len(reqs) :
    /\ reqs[i].pc = "reading"
    /\ reqs[i].wire # Undecodable
    /\ Continue(i, AfterJson(reqs[i], i, reqs[i].wire, config.debug))

\* response.json() of request i fails: the body is not JSON, or the
\* connection broke while the body was read
BodyFails ==
  \E i \in 1..Len(reqs) :
    /\ reqs[i].pc = "reading"
    /\ \E error \in {NetworkFault(i)} \cup
                    (IF reqs[i].wire = Undecodable THEN {JsonSyntaxError(i)} ELSE {}) :
         Continue(i, Reject(reqs[i], Catch(i, error)))

\* the operation is over and the caller uses the client again
Reuse ==
  /\ call.kind # "none"
  /\ call.state # "pending"
  /\ \A i \in 1..Len(reqs) :
       reqs[i].pc \notin {"fetching", "reading"} /\ reqs[i].timer # "pending"
  /\ call' = NoCall
  /\ reqs' = <<>>
  /\ fetchLog' = <<>>
  /\ settleLog' = <<>>
  /\ UNCHANGED <<config, cryptoJS, confOp, sigVars, libVars>>

\* configure(partial)
Configure ==
  \E partial \in Partials :
    /\ Exists
    /\ config' = Merge(config, partial)
    /\ confOp' = ConfOp("configure", partial, config', cryptoJS)
    /\ UNCHANGED <<cryptoJS, call, reqs, fetchLog, settleLog, sigVars, libVars>>

\* a call of enableDebug or disableDebug, name
DebugOp(name) ==
  [name |-> name, named |-> {}, value |-> Unnamed, warnings |-> <<>>,
   thrown |-> NoError]

\* enableDebug()
EnableDebug ==
  /\ Exists
  /\ config' = SetDebug(config, TRUE)
  /\ confOp' = DebugOp("enableDebug")
  /\ UNCHANGED <<cryptoJS, call, reqs, fetchLog, settleLog, sigVars, libVars>>

\* disableDebug()
DisableDebug ==
  /\ Exists
  /\ config' = SetDebug(config, FALSE)
  /\ confOp' = DebugOp("disableDebug")
  /\ UNCHANGED <<cryptoJS, call, reqs, fetchLog, settleLog, sigVars, libVars>>

ClientNext ==
  \/ Request
  \/ RequestAll
  \/ RequestSequential
  \/ FetchResponds
  \/ FetchFails
  \/ TimerFires
  \/ BodyDecoded
  \/ BodyFails
  \/ Reuse

(***************************************************************************)
(* createSignature on its own: a params mapping is built in one insertion  *)
(* order, signed, then rebuilt in other orders and signed again.           *)
(***************************************************************************)
SigKeys == {"action", "Sheet", "2", "10", "token"}
SigValues == {"x", "y"}
SigSecrets == {"S1", "S2"}

\* the canonical string and the signature of the mapping built from ins
Signing(ins, secret) ==
  [string |-> SignatureString(ObjectFrom(ins)),
   signature |-> createSignature(ObjectFrom(ins), secret)]

\* the list l with its entries i and i + 1 exchanged
SwapAt(l, i) == [l EXCEPT ![i] = l[i + 1], ![i + 1] = l[i]]

Unsigned == [string |-> "", signature |-> ""]

SigInit ==
  /\ sigOrig \in InsertionLists(SigKeys, SigValues, MaxParams + 1)
  /\ sigIns = sigOrig
  /\ sigSecret \in SigSecrets
  /\ sigFirst = Unsigned
  /\ sigLast = Unsigned

\* the caller signs the mapping as first built
Sign ==
  /\ sigFirst = Unsigned
  /\ sigFirst' = Signing(sigIns, sigSecret)
  /\ sigLast' = sigFirst'
  /\ UNCHANGED <<sigOrig, sigIns, sigSecret, clientVars, libVars>>

\* the caller builds the same mapping in another order and signs it
Rebuild ==
  \E i \in 1..(Len(sigIns) - 1) :
    /\ sigFirst # Unsigned
    /\ sigIns' = SwapAt(sigIns, i)
    /\ sigLast' = Signing(sigIns', sigSecret)
    /\ UNCHANGED <<sigOrig, sigSecret, sigFirst, clientVars, libVars>>

\* the variables of createSignature alone, while the client is modelled
SigIdle ==
  /\ sigOrig = <<>> /\ sigIns = <<>> /\ sigSecret = ""
  /\ sigFirst = Unsigned /\ sigLast = Unsigned

\* the variables of the client, while createSignature alone is modelled
ClientIdle ==
  /\ config = Constructor([scriptUrl |-> "", apiToken |-> "", hmacSecret |-> "",
                           debug |-> FALSE, timeout |-> 0])
  /\ call = NoCall /\ reqs = <<>> /\ fetchLog = <<>> /\ settleLog = <<>>
  /\ cryptoJS = TRUE
  /\ confOp = ConfOp("constructor", [named |-> {}, value |-> Unnamed], config, TRUE)

(***************************************************************************)
(* Part 2: the libraries of src/image_handle.js and src/gs_data_mapper.js. *)
(*                                                                         *)
(* Their strings are trimmed, converted and measured, so a string is       *)
(* modelled here as the sequence of its characters.                        *)
(***************************************************************************)
LowerLetters ==
  <<"a", "b", "c", "d", "e", "f", "g", "h", "i", "j", "k", "l", "m",
    "n", "o", "p", "q", "r", "s", "t", "u", "v", "w", "x", "y", "z">>
UpperLetters ==
  <<"A", "B", "C", "D", "E", "F", "G", "H", "I", "J", "K", "L", "M",
    "N", "O", "P", "Q", "R", "S", "T", "U", "V", "W", "X", "Y", "Z">>
Digits == <<"0", "1", "2", "3", "4", "5", "6", "7", "8", "9">>

\* the position of the character c in the list l, 0 if it is not there
IndexIn(l, c) ==
  IF \E i \in 1..Len(l) : l[i] = c
  THEN CHOOSE i \in 1..Len(l) : l[i] = c
  ELSE 0

IsWhitespace(c) == c = " "
CharToLowerCase(c) ==
  IF IndexIn(UpperLetters, c) = 0 THEN c ELSE LowerLetters[IndexIn(UpperLetters, c)]
CharToUpperCase(c) ==
  IF IndexIn(LowerLetters, c) = 0 THEN c ELSE UpperLetters[IndexIn(LowerLetters, c)]

\* String.prototype.toLowerCase
toLowerCase(s) == [i \in 1..Len(s) |-> CharToLowerCase(s[i])]

RECURSIVE trimStart(_)
trimStart(s) ==
  IF s # <<>> /\ IsWhitespace(s[1]) THEN trimStart(Tail(s)) ELSE s

RECURSIVE trimEnd(_)
trimEnd(s) ==
  IF s # <<>> /\ IsWhitespace(s[Len(s)])
  THEN trimEnd(SubSeq(s, 1, Len(s) - 1))
  ELSE s

\* String.prototype.trim
trim(s) == trimEnd(trimStart(s))

\* the collation weights of a character: its letter whatever the case
\* (what is no letter sorts before the letters), then lower before upper case
PrimaryWeight(c) == IndexIn(LowerLetters, CharToLowerCase(c))
TertiaryWeight(c) == IF IndexIn(UpperLetters, c) = 0 THEN 0 ELSE 1

RECURSIVE CompareWeights(_, _, _, _)
\* -1, 0 or 1: a against b from position i on, by the weights of level
CompareWeights(a, b, i, level) ==
  IF i > Len(a) /\ i > Len(b) THEN 0
  ELSE IF i > Len(a) THEN -1
  ELSE IF i > Len(b) THEN 1
  ELSE LET wa == IF level = 1 THEN PrimaryWeight(a[i]) ELSE TertiaryWeight(a[i])
           wb == IF level = 1 THEN PrimaryWeight(b[i]) ELSE TertiaryWeight(b[i])
       IN  IF wa < wb THEN -1
           ELSE IF wa > wb THEN 1
           ELSE CompareWeights(a, b, i + 1, level)

\* a.localeCompare(b): the letters decide, the case breaks ties
localeCompare(a, b) ==
  IF CompareWeights(a, b, 1, 1) # 0
  THEN CompareWeights(a, b, 1, 1)
  ELSE CompareWeights(a, b, 1, 3)

\* what the comparator cmp returns for x and y: the arrow functions of
\* sortCategories, and the compareFn arguments of sortWith
Compare(cmp, x, y) ==
  CASE cmp.by = "localeCompare" ->
         IF cmp.direction = "asc" THEN localeCompare(x, y) ELSE localeCompare(y, x)
    [] cmp.by = "count" ->
         IF cmp.direction = "asc" THEN x.count - y.count ELSE y.count - x.count

RECURSIVE InsertStable(_, _, _)
\* x put into the sorted list l behind every element that is not greater
InsertStable(l, x, cmp) ==
  IF l = <<>> \/ Compare(cmp, l[Len(l)], x) <= 0
  THEN Append(l, x)
  ELSE Append(InsertStable(SubSeq(l, 1, Len(l) - 1), x, cmp), l[Len(l)])

RECURSIVE ArraySort(_, _)
\* Array.prototype.sort(compareFn): stable
ArraySort(l, cmp) ==
  IF l = <<>> THEN <<>>
  ELSE InsertStable(ArraySort(SubSeq(l, 1, Len(l) - 1), cmp), l[Len(l)], cmp)

\* Array.prototype.slice(from) and slice(0, to), from and to not negative
SliceFrom(l, from) == SubSeq(l, from + 1, Len(l))
SliceTo(l, to) == SubSeq(l, 1, IF to < Len(l) THEN to ELSE Len(l))

\* Array.prototype.includes
Includes(l, x) == \E i \in 1..Len(l) : l[i] = x

(***************************************************************************)
(* UniversalCategoryManager (src/image_handle.js).                         *)
(*                                                                         *)
(* A product is a record that has a category field or has none. The        *)
(* nested config object is modelled by its leaves: a deep merge of nested  *)
(* plain objects replaces the leaves the argument names.                   *)
(***************************************************************************)
AllOption == <<"a", "l", "l">>

\* this.config of the category manager when the script is loaded
DefaultCategoryConfig ==
  [allOptionValue |-> AllOption,
   mobileBreakpoint |-> 768, mobileMaxVisible |-> 4,
   tabletBreakpoint |-> 1024, tabletMaxVisible |-> 5,
   desktopMaxVisible |-> 6,
   sortingEnabled |-> TRUE, sortingMethod |-> "alphabetical",
   sortingDirection |-> "asc",
   caseInsensitive |-> TRUE, trim |-> TRUE,
   rememberSelection |-> FALSE]

\* this.state of the category manager when the script is loaded
LoadedState ==
  [allCategories |-> <<>>, visibleCategories |-> <<>>, hiddenCategories |-> <<>>,
   currentCategory |-> AllOption, isExpanded |-> FALSE, products |-> <<>>]

\* _deepMerge(target, source): source is [named, value], the leaves it
\* names and their values
CategoryDeepMerge(target, source) ==
  [f \in DOMAIN target |-> IF f \in source.named THEN source.value[f] ELSE target[f]]

\* product[categoryField] is truthy: there is a category and it is not ''
HasCategory(product) ==
  "category" \in DOMAIN product /\ product.category # <<>>

\* the position of the entry of key in the Map m, 0 if it has none
MapIndex(m, key) ==
  IF \E j \in 1..Len(m) : m[j].key = key
  THEN CHOOSE j \in 1..Len(m) : m[j].key = key
  ELSE 0

\* the entry the forEach callback of extractCategories works on for
\* product: its trimmed category
Extracted(product, cfg) ==
  IF cfg.trim THEN trim(product.category) ELSE product.category

\* the key of that entry
ExtractedKey(product, cfg) ==
  IF cfg.caseInsensitive
  THEN toLowerCase(Extracted(product, cfg))
  ELSE Extracted(product, cfg)

RECURSIVE CategoriesMap(_, _, _)
\* categoriesMap of extractCategories after the first n products: entries
\* in insertion order
CategoriesMap(products, cfg, n) ==
  IF n = 0 THEN <<>>
  ELSE LET m == CategoriesMap(products, cfg, n - 1)
           product == products[n]
       IN  IF ~HasCategory(product) THEN m
           ELSE IF Extracted(product, cfg) = <<>> THEN m
           ELSE IF MapIndex(m, ExtractedKey(product, cfg)) # 0
           THEN [m EXCEPT ![MapIndex(m, ExtractedKey(product, cfg))].count = @ + 1]
           ELSE Append(m, [name |-> Extracted(product, cfg),
                           key |-> ExtractedKey(product, cfg),
                           count |-> 1])

\* extractCategories(): this.state afterwards
extractCategories(st, cfg) ==
  LET m == CategoriesMap(st.products, cfg, Len(st.products))
  IN  [st EXCEPT !.allCategories = [j \in 1..Len(m) |-> m[j].name]]

\* getCategoriesWithCount(): counts is keyed by the category as the
\* product holds it
getCategoriesWithCount(st, cfg) ==
  [j \in 1..Len(st.allCategories) |->
     [name |-> st.allCategories[j],
      count |-> Cardinality({i \in 1..Len(st.products) :
                               /\ HasCategory(st.products[i])
                               /\ st.products[i].category = st.allCategories[j]})]]

\* sortCategories(): this.state afterwards
sortCategories(st, cfg) ==
  CASE cfg.sortingMethod = "alphabetical" ->
         [st EXCEPT !.allCategories =
            ArraySort(@, [by |-> "localeCompare", direction |-> cfg.sortingDirection])]
    [] cfg.sortingMethod = "count" ->
         LET counts == ArraySort(getCategoriesWithCount(st, cfg),
                                 [by |-> "count", direction |-> cfg.sortingDirection])
         IN  [st EXCEPT !.allCategories = [j \in 1..Len(counts) |-> counts[j].name]]
    [] OTHER -> st

\* getMaxVisibleCategories() at the window width
getMaxVisibleCategories(cfg, width) ==
  IF width <= cfg.mobileBreakpoint THEN cfg.mobileMaxVisible
  ELSE IF width <= cfg.tabletBreakpoint THEN cfg.tabletMaxVisible
  ELSE cfg.desktopMaxVisible

\* an update that drops the first of the hidden categories
updateVisibilityDropping(st, cfg, width) ==
  [st EXCEPT
     !.visibleCategories = SliceTo(st.allCategories, getMaxVisibleCategories(cfg, width)),
     !.hiddenCategories = SliceFrom(st.allCategories, getMaxVisibleCategories(cfg, width) + 1)]

\* updateVisibility(): this.state afterwards
updateVisibility(st, cfg, width) ==
  [st EXCEPT
     !.visibleCategories = SliceTo(st.allCategories, getMaxVisibleCategories(cfg, width)),
     !.hiddenCategories = SliceFrom(st.allCategories, getMaxVisibleCategories(cfg, width))]

\* extractCategories, sortCategories if enabled, updateVisibility: the
\* body of refresh() and the middle of init()
refresh(st, cfg, width) ==
  LET extracted == extractCategories(st, cfg)
      sorted == IF cfg.sortingEnabled THEN sortCategories(extracted, cfg) ELSE extracted
  IN  updateVisibility(sorted, cfg, width)

\* sortWith(compareFn): not a function, or a comparator
sortWith(st, cfg, width, compareFn) ==
  IF compareFn.by = "notAFunction" THEN st
  ELSE updateVisibility([st EXCEPT !.allCategories = ArraySort(@, compareFn)], cfg, width)

expand(st) ==
  [st EXCEPT !.isExpanded = TRUE,
             !.visibleCategories = st.allCategories,
             !.hiddenCategories = <<>>]

collapse(st, cfg, width) ==
  updateVisibility([st EXCEPT !.isExpanded = FALSE], cfg, width)

\* localStorage.getItem(key): null when there is no item
NoItem == [present |-> FALSE, value |-> <<>>]
Item(value) == [present |-> TRUE, value |-> value]

\* restoreSelection(): this.state afterwards
restoreSelection(st, cfg, storage) ==
  IF /\ storage.present
     /\ storage.value # <<>>
     /\ \/ storage.value = cfg.allOptionValue
        \/ Includes(st.allCategories, storage.value)
  THEN [st EXCEPT !.currentCategory = storage.value]
  ELSE st

\* filterProducts(category): the positions of the products it returns
filterProducts(st, cfg, category) ==
  LET cat == IF category # <<>> THEN category ELSE st.currentCategory
      positions == [i \in 1..Len(st.products) |-> i]
  IN  IF cat = cfg.allOptionValue THEN positions
      ELSE SelectSeq(positions,
             LAMBDA i :
               IF cfg.caseInsensitive
               THEN /\ HasCategory(st.products[i])
                    /\ toLowerCase(st.products[i].category) = toLowerCase(cat)
               ELSE /\ "category" \in DOMAIN st.products[i]
                    /\ st.products[i].category = cat)

getCategoryCount(st, cfg, category) == Len(filterProducts(st, cfg, category))

\* clear(): this.state afterwards
clear(cfg) == [LoadedState EXCEPT !.currentCategory = cfg.allOptionValue]

\* the products handed to init and updateProducts: without a category, or
\* with one that may differ from another in case or surrounding blanks
Products ==
  {[name |-> <<"x">>]} \cup
  {[name |-> <<"x">>, category |-> c] :
     c \in {<<"a">>, <<"A", " ">>, <<"b">>}}
ProductLists == UNION {[1..n -> Products] : n \in 0..MaxProducts}

\* the options handed to init by a page with a narrow category bar
VisibilityOptions ==
  { [named |-> {}, value |-> DefaultCategoryConfig],
    [named |-> {"mobileMaxVisible", "desktopMaxVisible",
                "sortingMethod", "sortingDirection"},
     value |-> [DefaultCategoryConfig EXCEPT
                  !.mobileMaxVisible = 1, !.desktopMaxVisible = 2,
                  !.sortingMethod = "count", !.sortingDirection = "desc"]] }

\* the options handed to init by a page that remembers the selection
SelectionOptions ==
  { [named |-> {}, value |-> DefaultCategoryConfig],
    [named |-> {"sortingEnabled", "rememberSelection"},
     value |-> [DefaultCategoryConfig EXCEPT
                  !.sortingEnabled = FALSE, !.rememberSelection = TRUE]] }

\* window widths: a phone at the breakpoint, and a desktop
Widths == {768, 1025}

\* what sortWith is called with
CompareFns ==
  { [by |-> "notAFunction", direction |-> "asc"],
    [by |-> "localeCompare", direction |-> "desc"] }

\* what an earlier visit may have left in localStorage
StoredSelections == {NoItem, Item(<<"b">>)}

\* the script is loaded in a window of some width
CategoryLoaded ==
  /\ state = LoadedState
  /\ catConfig = DefaultCategoryConfig
  /\ localStorage = NoItem
  /\ innerWidth \in Widths
  /\ measuredWidth = innerWidth

\* the script is loaded by a page that finds an earlier selection or none
SelectionLoaded ==
  /\ state = LoadedState
  /\ catConfig = DefaultCategoryConfig
  /\ localStorage \in StoredSelections
  /\ innerWidth = 1025
  /\ measuredWidth = innerWidth

\* init(products, options)
InitWith(optionSet) ==
  \E products \in ProductLists, options \in optionSet :
    /\ catConfig' = CategoryDeepMerge(catConfig, options)
    /\ state' =
         LET refreshed == refresh([state EXCEPT !.products = products],
                                  catConfig', innerWidth)
         IN  IF catConfig'.rememberSelection
             THEN restoreSelection(refreshed, catConfig', localStorage)
             ELSE refreshed
    /\ measuredWidth' = innerWidth
    /\ UNCHANGED <<localStorage, innerWidth, clientVars, sigVars, validatorVars,
                   mapperVars>>

CategoryInit == InitWith(VisibilityOptions)
SelectionInit == InitWith(SelectionOptions)

\* updateProducts(products)
UpdateProducts ==
  \E products \in ProductLists :
    /\ state' = refresh([state EXCEPT !.products = products], catConfig, innerWidth)
    /\ measuredWidth' = innerWidth
    /\ UNCHANGED <<catConfig, localStorage, innerWidth, clientVars, sigVars,
                   validatorVars, mapperVars>>

\* refresh()
Refresh ==
  /\ state' = refresh(state, catConfig, innerWidth)
  /\ measuredWidth' = innerWidth
  /\ UNCHANGED <<catConfig, localStorage, innerWidth, clientVars, sigVars,
                 validatorVars, mapperVars>>

\* sortWith(compareFn)
SortWith ==
  \E compareFn \in CompareFns :
    /\ state' = sortWith(state, catConfig, innerWidth, compareFn)
    /\ measuredWidth' = (IF compareFn.by = "notAFunction" THEN measuredWidth ELSE innerWidth)
    /\ UNCHANGED <<catConfig, localStorage, innerWidth, clientVars, sigVars,
                   validatorVars, mapperVars>>

\* expand()
Expand ==
  /\ state' = expand(state)
  /\ measuredWidth' = measuredWidth
  /\ UNCHANGED <<catConfig, localStorage, innerWidth, clientVars, sigVars,
                 validatorVars, mapperVars>>

\* collapse()
Collapse ==
  /\ state' = collapse(state, catConfig, innerWidth)
  /\ measuredWidth' = innerWidth
  /\ UNCHANGED <<catConfig, localStorage, innerWidth, clientVars, sigVars,
                 validatorVars, mapperVars>>

\* toggle()
Toggle ==
  /\ state' = IF state.isExpanded
              THEN collapse(state, catConfig, innerWidth)
              ELSE expand(state)
  /\ measuredWidth' = (IF state.isExpanded THEN innerWidth ELSE measuredWidth)
  /\ UNCHANGED <<catConfig, localStorage, innerWidth, clientVars, sigVars,
                 validatorVars, mapperVars>>

\* setCategory(category), called with the 'all' value or with one of
\* allCategories: what a category bar offers
SetCategory ==
  \E category \in {catConfig.allOptionValue} \cup
                  {state.allCategories[j] : j \in 1..Len(state.allCategories)} :
    /\ state' = [state EXCEPT !.currentCategory = category]
    /\ localStorage' = IF catConfig.rememberSelection THEN Item(category)
                       ELSE localStorage
    /\ measuredWidth' = measuredWidth
    /\ UNCHANGED <<catConfig, innerWidth, clientVars, sigVars, validatorVars,
                   mapperVars>>

\* restoreSelection()
RestoreSelection ==
  /\ state' = restoreSelection(state, catConfig, localStorage)
  /\ measuredWidth' = measuredWidth
  /\ UNCHANGED <<catConfig, localStorage, innerWidth, clientVars, sigVars,
                 validatorVars, mapperVars>>

\* clearSelection()
ClearSelection ==
  /\ localStorage' = NoItem
  /\ state' = [state EXCEPT !.currentCategory = catConfig.allOptionValue]
  /\ measuredWidth' = measuredWidth
  /\ UNCHANGED <<catConfig, innerWidth, clientVars, sigVars, validatorVars,
                 mapperVars>>

\* clear()
Clear ==
  /\ state' = clear(catConfig)
  /\ measuredWidth' = measuredWidth
  /\ UNCHANGED <<catConfig, localStorage, innerWidth, clientVars, sigVars,
                 validatorVars, mapperVars>>

\* the user resizes the window or turns the device: nothing listens
Resize ==
  /\ innerWidth' \in Widths \ {innerWidth}
  /\ UNCHANGED <<state, catConfig, localStorage, measuredWidth, clientVars, sigVars,
                 validatorVars, mapperVars>>

\* the variables of the category manager, while another part is modelled
CategoryIdle ==
  /\ state = LoadedState
  /\ catConfig = DefaultCategoryConfig
  /\ localStorage = NoItem
  /\ innerWidth = 1025
  /\ measuredWidth = 1025

(***************************************************************************)
(* UniversalProductValidator (src/image_handle.js).                        *)
(*                                                                         *)
(* A value of a product field is [t, s, n]: a string with its characters   *)
(* s, a number n, NaN, null or undefined. An entry of a batch is           *)
(* [isObject, props]: props is the record of its own properties, empty for *)
(* an entry that is no object. Messages are TLA+ strings.                  *)
(***************************************************************************)
Undefined == [t |-> "undefined", s |-> <<>>, n |-> 0]
Null == [t |-> "null", s |-> <<>>, n |-> 0]
NaN == [t |-> "NaN", s |-> <<>>, n |-> 0]
Str(s) == [t |-> "string", s |-> s, n |-> 0]
Num(n) == [t |-> "number", s |-> <<>>, n |-> n]

\* a limit of a rule: a number, or Infinity
Infinity == [finite |-> FALSE, n |-> 0]
Finite(n) == [finite |-> TRUE, n |-> n]

\* product[field]
Prop(props, field) == IF field \in DOMAIN props THEN props[field] ELSE Undefined

\* product[field] = value
WithProp(props, field, value) ==
  [f \in DOMAIN props \cup {field} |-> IF f = field THEN value ELSE props[f]]

\* !value
Falsy(value) ==
  \/ value.t \in {"undefined", "null", "NaN"}
  \/ value.t = "string" /\ value.s = <<>>
  \/ value.t = "number" /\ value.n = 0

RECURSIVE DigitsValue(_, _)
\* the number the leading digits of s, read after the number acc, stand for
DigitsValue(s, acc) ==
  IF s = <<>> \/ IndexIn(Digits, s[1]) = 0 THEN acc
  ELSE DigitsValue(Tail(s), 10 * acc + IndexIn(Digits, s[1]) - 1)

\* parseInt(s) and, for strings without fraction or exponent, parseFloat(s):
\* blanks, a sign, then the digits up to the first other character
ParseNumber(s) ==
  LET body == trimStart(s)
      negative == body # <<>> /\ body[1] = "-"
      digits == IF body # <<>> /\ body[1] \in {"-", "+"} THEN Tail(body) ELSE body
  IN  IF digits = <<>> \/ IndexIn(Digits, digits[1]) = 0 THEN NaN
      ELSE Num(IF negative THEN 0 - DigitsValue(digits, 0) ELSE DigitsValue(digits, 0))

\* typeof value === 'string' ? parseFloat(value) : value
ToNumber(value) == IF value.t = "string" THEN ParseNumber(value.s) ELSE value

\* the outcome of a field validator: isValid with the value, or the error,
\* or the message of the TypeError it threw
Accepted(value) == [isValid |-> TRUE, error |-> "", value |-> value, threw |-> ""]
Refused(error) == [isValid |-> FALSE, error |-> error, value |-> Undefined, threw |-> ""]
Threw(message) == [isValid |-> FALSE, error |-> "", value |-> Undefined, threw |-> message]

\* validateName(name, rules)
validateName(name, rules) ==
  IF ~rules.allowEmpty /\ Falsy(name) THEN Refused("Name is required")
  ELSE IF name.t # "string" /\ (~rules.allowEmpty \/ rules.trim)
       THEN Threw(IF name.t \in {"null", "undefined"}
                  THEN "Cannot read properties of " \o name.t \o " (reading 'trim')"
                  ELSE "name.trim is not a function")
  ELSE IF name.t # "string"
       THEN IF name.t = "null"
            THEN Threw("Cannot read properties of null (reading 'length')")
            ELSE Accepted(name)
  ELSE IF ~rules.allowEmpty /\ trim(name.s) = <<>> THEN Refused("Name is required")
  ELSE LET trimmedName == IF rules.trim THEN trim(name.s) ELSE name.s
           tooShort == IF Len(trimmedName) < rules.minLength
                       THEN <<"Name must be at least " \o ToString(rules.minLength)
                                \o " characters">>
                       ELSE <<>>
           tooLong == IF Len(trimmedName) > rules.maxLength
                      THEN <<"Name must not exceed " \o ToString(rules.maxLength)
                               \o " characters">>
                      ELSE <<>>
       IN  IF tooShort \o tooLong = <<>>
           THEN Accepted(Str(trimmedName))
           ELSE Refused(Join(tooShort \o tooLong, ", ", 1))

\* validatePrice(price, rules)
validatePrice(price, rules) ==
  LET numPrice == ToNumber(price)
  IN  IF numPrice.t \in {"NaN", "undefined"} THEN Refused("Price must be a valid number")
      ELSE IF numPrice.t # "number" THEN Accepted(numPrice)
      ELSE IF ~rules.allowNegative /\ numPrice.n < 0 THEN Refused("Price cannot be negative")
      ELSE IF ~rules.allowZero /\ numPrice.n = 0
           THEN Refused("Price must be greater than zero")
      ELSE IF numPrice.n < rules.min
           THEN Refused("Price must be at least " \o ToString(rules.min))
      ELSE IF rules.max.finite /\ numPrice.n > rules.max.n
           THEN Refused("Price must not exceed " \o ToString(rules.max.n))
      ELSE Accepted(numPrice)

\* validateCategory(category, rules)
validateCategory(category, rules) ==
  IF ~rules.allowEmpty /\ Falsy(category) THEN Refused("Category is required")
  ELSE IF category.t # "string" /\ (~rules.allowEmpty \/ rules.trim)
       THEN Threw(IF category.t \in {"null", "undefined"}
                  THEN "Cannot read properties of " \o category.t \o " (reading 'trim')"
                  ELSE "category.trim is not a function")
  ELSE IF category.t # "string"
       THEN IF category.t = "null"
            THEN Threw("Cannot read properties of null (reading 'length')")
            ELSE Accepted(category)
  ELSE IF ~rules.allowEmpty /\ trim(category.s) = <<>>
       THEN Refused("Category is required")
  ELSE LET trimmedCategory == IF rules.trim THEN trim(category.s) ELSE category.s
       IN  IF Len(trimmedCategory) < rules.minLength
           THEN Refused("Category must be at least " \o ToString(rules.minLength)
                          \o " characters")
           ELSE IF Len(trimmedCategory) > rules.maxLength
           THEN Refused("Category must not exceed " \o ToString(rules.maxLength)
                          \o " characters")
           ELSE Accepted(Str(trimmedCategory))

\* validateStock(stock, rules)
validateStock(stock, rules) ==
  LET numStock == ToNumber(stock)
  IN  IF numStock.t \in {"NaN", "undefined"} THEN Refused("Stock must be a valid number")
      ELSE IF numStock.t # "number" THEN Accepted(numStock)
      ELSE IF ~rules.allowZero /\ numStock.n = 0
           THEN Refused("Stock must be greater than zero")
      ELSE IF numStock.n < rules.min
           THEN Refused("Stock must be at least " \o ToString(rules.min))
      ELSE Accepted(numStock)

\* _validateRequiredFields(product, options)
validateRequiredFields(props, options) ==
  LET missing == SelectSeq(options.requiredFields,
                           LAMBDA field : Prop(props, field).t \in {"undefined", "null"})
  IN  [i \in 1..Len(missing) |-> "Missing required field: " \o missing[i]]

\* one step of _validateFields: the outcome of a field validator applied to
\* what was collected so far, [product, errors, threw]; convert says
\* whether the accepted value is written back
FieldStep(sofar, field, label, outcome, convert) ==
  IF sofar.threw # "" \/ Prop(sofar.product, field).t = "undefined" THEN sofar
  ELSE IF outcome.threw # "" THEN [sofar EXCEPT !.threw = outcome.threw]
  ELSE IF ~outcome.isValid
       THEN [sofar EXCEPT !.errors = Append(@, label \o ": " \o outcome.error)]
  ELSE IF convert
       THEN [sofar EXCEPT !.product = WithProp(@, field, outcome.value)]
  ELSE sofar

\* options.customRules, the empty object if there is none
CustomRules(options) ==
  IF "customRules" \in DOMAIN options THEN options.customRules ELSE <<>>

RECURSIVE CustomSteps(_, _, _)
\* the forEach over the custom rules from rule i on: a rule is [k, v], the
\* field and what the validator does
CustomSteps(sofar, rules, i) ==
  IF i > Len(rules) \/ sofar.threw # "" THEN sofar
  ELSE IF Prop(sofar.product, rules[i].k).t = "undefined"
       THEN CustomSteps(sofar, rules, i + 1)
  ELSE IF rules[i].v = "throws"
       THEN [sofar EXCEPT !.threw = "validator failed"]
  ELSE IF rules[i].v = "rejects"
       THEN CustomSteps([sofar EXCEPT !.errors = Append(@, rules[i].k \o ": rejected")],
                        rules, i + 1)
  ELSE CustomSteps(sofar, rules, i + 1)

\* _validateFields(product, options): the product as it leaves it, the
\* errors, and the message of what it threw
validateFields(props, options) ==
  LET start == [product |-> props, errors |-> <<>>, threw |-> ""]
      named == FieldStep(start, "name", "Name",
                         validateName(Prop(props, "name"), options.rules.name),
                         options.behavior.autoTrim)
      priced == FieldStep(named, "price", "Price",
                          validatePrice(Prop(props, "price"), options.rules.price),
                          options.behavior.autoConvert)
      sorted == FieldStep(priced, "category", "Category",
                          validateCategory(Prop(props, "category"),
                                           options.rules.category),
                          options.behavior.autoTrim)
      stocked == FieldStep(sorted, "stock", "Stock",
                           validateStock(Prop(props, "stock"), options.rules.stock),
                           options.behavior.autoConvert)
  IN  CustomSteps(stocked, CustomRules(options), 1)

\* _buildResult, and threw: whether validate() threw instead of returning
BuildResult(isValid, errors, product, threw) ==
  [isValid |-> isValid, errors |-> errors, product |-> product,
   errorCount |-> Len(errors), threw |-> threw]

\* validate(product, options), options being this.config
validate(product, options) ==
  IF ~product.isObject
  THEN BuildResult(FALSE, <<"Product must be an object">>, product, FALSE)
  ELSE LET required == validateRequiredFields(product.props, options)
           fields == validateFields(product.props, options)
           errors == required \o fields.errors
           validated == [isObject |-> TRUE, props |-> fields.product]
       IN  IF fields.threw # ""
           THEN BuildResult(FALSE,
                            Append(required, "Validation error: " \o fields.threw),
                            product, options.behavior.throwErrors)
           ELSE IF errors # <<>>
           THEN IF options.behavior.throwErrors
                THEN BuildResult(FALSE,
                                 Append(errors, "Validation error: "
                                                  \o Join(errors, "; ", 1)),
                                 product, TRUE)
                ELSE BuildResult(FALSE, errors, validated, FALSE)
           ELSE BuildResult(TRUE, <<>>, validated, FALSE)

\* (valid.length / products.length * 100).toFixed(2) + '%'
SuccessRate(valid, total) ==
  IF total = 0 THEN "0%"
  ELSE LET hundredths == (2 * 10000 * valid + total) \div (2 * total)
           cents == hundredths % 100
       IN  ToString(hundredths \div 100) \o "."
             \o (IF cents < 10 THEN "0" ELSE "") \o ToString(cents) \o "%"

\* what validateBatch returns, and threw: whether it threw instead
BatchResult(valid, invalid, total, threw) ==
  [valid |-> valid, invalid |-> invalid,
   stats |-> [total |-> total, valid |-> Len(valid), invalid |-> Len(invalid),
              successRate |-> SuccessRate(Len(valid), total)],
   threw |-> threw]

RECURSIVE BatchFrom(_, _, _, _, _)
\* the forEach of validateBatch from the position i on (index i - 1), valid
\* and invalid being what it pushed before; forEach does not call back for
\* an index that holds no element
BatchFrom(items, options, i, valid, invalid) ==
  IF i > Len(items) THEN BatchResult(valid, invalid, Len(items), FALSE)
  ELSE IF ~items[i].present THEN BatchFrom(items, options, i + 1, valid, invalid)
  ELSE LET result == validate(items[i].value, options)
       IN  IF result.threw THEN BatchResult(valid, invalid, Len(items), TRUE)
           ELSE IF result.isValid
           THEN BatchFrom(items, options, i + 1, Append(valid, result.product), invalid)
           ELSE BatchFrom(items, options, i + 1, valid,
                          Append(invalid, [index |-> i - 1, product |-> items[i].value,
                                           errors |-> result.errors]))

\* validateBatch(products): products is [isArray, items], an item
\* [present, value] is an element of the array or, with present FALSE, an
\* index of products.length that holds none
validateBatch(products, options) ==
  IF ~products.isArray
  THEN [valid |-> <<>>, invalid |-> <<>>,
        stats |-> [total |-> 0, valid |-> 0, invalid |-> 0], threw |-> FALSE]
  ELSE BatchFrom(products.items, options, 1, <<>>, <<>>)

\* this.config of the validator when the script is loaded
LoadedValidatorConfig ==
  [requiredFields |-> <<"name", "price", "category">>,
   optionalFields |-> <<"id", "image", "description", "stock", "sku">>,
   rules |->
     [name |-> [minLength |-> 1, maxLength |-> 200, allowEmpty |-> FALSE, trim |-> TRUE],
      price |-> [min |-> 0, max |-> Infinity, allowZero |-> FALSE,
                 allowNegative |-> FALSE, isNumeric |-> TRUE],
      category |-> [minLength |-> 1, maxLength |-> 100, allowEmpty |-> FALSE,
                    trim |-> TRUE],
      id |-> [isNumeric |-> FALSE, allowEmpty |-> TRUE],
      stock |-> [min |-> 0, isNumeric |-> TRUE, allowZero |-> TRUE],
      description |-> [maxLength |-> 1000, allowEmpty |-> TRUE]],
   behavior |->
     [strictMode |-> FALSE, autoTrim |-> TRUE, autoConvert |-> TRUE,
      removeInvalid |-> TRUE, logErrors |-> TRUE, throwErrors |-> FALSE]]

\* _getDefaultConfig()
getDefaultConfig ==
  [requiredFields |-> <<"name", "price", "category">>,
   optionalFields |-> <<"id", "image", "description", "stock", "sku">>,
   rules |->
     [name |-> [minLength |-> 1, maxLength |-> 200, allowEmpty |-> FALSE, trim |-> TRUE],
      price |-> [min |-> 0, max |-> Infinity, allowZero |-> FALSE,
                 allowNegative |-> FALSE, isNumeric |-> TRUE],
      category |-> [minLength |-> 1, maxLength |-> 100, allowEmpty |-> FALSE,
                    trim |-> TRUE],
      stock |-> [min |-> 0, isNumeric |-> TRUE, allowZero |-> TRUE]],
   behavior |->
     [strictMode |-> FALSE, autoTrim |-> TRUE, autoConvert |-> TRUE,
      removeInvalid |-> TRUE, logErrors |-> TRUE, throwErrors |-> FALSE]]

\* _deepMerge of two objects whose values are no objects
MergeLeaves(target, source) ==
  [k \in DOMAIN target \cup DOMAIN source |->
     IF k \in DOMAIN source THEN source[k] ELSE target[k]]

\* _deepMerge of two objects whose values are such objects
MergeNested(target, source) ==
  [k \in DOMAIN target \cup DOMAIN source |->
     IF k \notin DOMAIN source THEN target[k]
     ELSE IF k \in DOMAIN target THEN MergeLeaves(target[k], source[k])
     ELSE source[k]]

\* _deepMerge(this.config, newConfig): rules is merged field by field and
\* rule by rule, behavior setting by setting, an array is replaced
ValidatorDeepMerge(target, source) ==
  [k \in DOMAIN target \cup DOMAIN source |->
     IF k \notin DOMAIN source THEN target[k]
     ELSE IF k = "rules" /\ k \in DOMAIN target THEN MergeNested(target[k], source[k])
     ELSE IF k = "behavior" /\ k \in DOMAIN target THEN MergeLeaves(target[k], source[k])
     ELSE source[k]]

\* addRequiredField(fieldName): this.config afterwards
addRequiredField(cfg, fieldName) ==
  IF Includes(cfg.requiredFields, fieldName) THEN cfg
  ELSE [cfg EXCEPT !.requiredFields = Append(@, fieldName)]

\* removeRequiredField(fieldName): this.config afterwards
removeRequiredField(cfg, fieldName) ==
  [cfg EXCEPT !.requiredFields = SelectSeq(@, LAMBDA f : f # fieldName)]

\* addCustomRule(fieldName, validator): this.config afterwards; customRules
\* is an object, its properties [k, v] in the order they were created
addCustomRule(cfg, fieldName, validator) ==
  IF validator = "notAFunction" THEN cfg
  ELSE [k \in DOMAIN cfg \cup {"customRules"} |->
          IF k = "customRules"
          THEN SetProp(CustomRules(cfg), fieldName, validator)
          ELSE cfg[k]]

\* removeCustomRule(fieldName): this.config afterwards
removeCustomRule(cfg, fieldName) ==
  IF "customRules" \in DOMAIN cfg /\ HasOwn(cfg.customRules, fieldName)
  THEN [cfg EXCEPT !.customRules = SelectSeq(@, LAMBDA e : e.k # fieldName)]
  ELSE cfg

\* the entries of the batches
ValidProduct ==
  [isObject |-> TRUE,
   props |-> [name |-> Str(<<"T", "e", "e", " ">>), price |-> Str(<<"5">>),
              category |-> Str(<<"a">>), sku |-> Str(<<"s">>)]]
InvalidProduct ==
  [isObject |-> TRUE,
   props |-> [name |-> Str(<<>>), price |-> Num(0), stock |-> Str(<<"-", "1">>)]]
NoProduct == [isObject |-> FALSE, props |-> <<>>]
ThrowingProduct ==
  [isObject |-> TRUE,
   props |-> [name |-> Num(7), price |-> Num(10), category |-> Str(<<"a">>)]]
Element(product) == [present |-> TRUE, value |-> product]
Hole == [present |-> FALSE, value |-> NoProduct]
BatchEntries ==
  {Element(product) :
     product \in {ValidProduct, InvalidProduct, NoProduct, ThrowingProduct}}
    \cup {Hole}

\* what validateBatch is called with: an array of at most MaxBatch entries,
\* or something that is no array
Batches ==
  {[isArray |-> FALSE, items |-> <<>>]} \cup
  {[isArray |-> TRUE, items |-> items] :
     items \in UNION {[1..n -> BatchEntries] : n \in 0..MaxBatch}}

\* what configure is called with
ValidatorPartials ==
  { [behavior |-> [throwErrors |-> TRUE]],
    [behavior |-> [throwErrors |-> FALSE], rules |-> [price |-> [allowZero |-> TRUE]]] }

\* the fields and validators the rule operations are called with
RuleFields == {"sku"}
Validators == {"rejects", "notAFunction"}

\* the last call on the validator: the operation, and for validateBatch
\* its argument and what it returned
ValidatorCall(op, products, result) ==
  [op |-> op, products |-> products, result |-> result]
NoBatch == [isArray |-> FALSE, items |-> <<>>]
NoResult ==
  [valid |-> <<>>, invalid |-> <<>>,
   stats |-> [total |-> 0, valid |-> 0, invalid |-> 0], threw |-> FALSE]

\* the script is loaded
ValidatorLoaded ==
  /\ validatorConfig = LoadedValidatorConfig
  /\ validatorCall = ValidatorCall("load", NoBatch, NoResult)

\* validateBatch(products)
ValidateBatch ==
  \E products \in Batches :
    /\ validatorCall' = ValidatorCall("validateBatch", products,
                                      validateBatch(products, validatorConfig))
    /\ UNCHANGED <<validatorConfig, clientVars, sigVars, catVars, mapperVars>>

\* configure(newConfig)
ValidatorConfigure ==
  \E newConfig \in ValidatorPartials :
    /\ validatorConfig' = ValidatorDeepMerge(validatorConfig, newConfig)
    /\ validatorCall' = ValidatorCall("configure", NoBatch, NoResult)
    /\ UNCHANGED <<clientVars, sigVars, catVars, mapperVars>>

\* addRequiredField(fieldName)
AddRequiredField ==
  \E fieldName \in RuleFields :
    /\ validatorConfig' = addRequiredField(validatorConfig, fieldName)
    /\ validatorCall' = ValidatorCall("addRequiredField", NoBatch, NoResult)
    /\ UNCHANGED <<clientVars, sigVars, catVars, mapperVars>>

\* removeRequiredField(fieldName)
RemoveRequiredField ==
  \E fieldName \in RuleFields :
    /\ validatorConfig' = removeRequiredField(validatorConfig, fieldName)
    /\ validatorCall' = ValidatorCall("removeRequiredField", NoBatch, NoResult)
    /\ UNCHANGED <<clientVars, sigVars, catVars, mapperVars>>

\* addCustomRule(fieldName, validator)
AddCustomRule ==
  \E fieldName \in RuleFields, validator \in Validators :
    /\ validatorConfig' = addCustomRule(validatorConfig, fieldName, validator)
    /\ validatorCall' = ValidatorCall("addCustomRule", NoBatch, NoResult)
    /\ UNCHANGED <<clientVars, sigVars, catVars, mapperVars>>

\* removeCustomRule(fieldName)
RemoveCustomRule ==
  \E fieldName \in RuleFields :
    /\ validatorConfig' = removeCustomRule(validatorConfig, fieldName)
    /\ validatorCall' = ValidatorCall("removeCustomRule", NoBatch, NoResult)
    /\ UNCHANGED <<clientVars, sigVars, catVars, mapperVars>>

\* resetConfig()
ResetConfig ==
  /\ validatorConfig' = getDefaultConfig
  /\ validatorCall' = ValidatorCall("resetConfig", NoBatch, NoResult)
  /\ UNCHANGED <<clientVars, sigVars, catVars, mapperVars>>

\* the variables of the validator, while another part is modelled
ValidatorIdle == ValidatorLoaded

(***************************************************************************)
(* The data mapper (gs_data_mapper.js).  A cell is a value as above, a     *)
(* boolean among them; a number that is no integer carries its fraction    *)
(* digits in s.  An object is a function from its keys.                    *)
(***************************************************************************)
Bool(b) == [t |-> "boolean", s |-> <<>>, n |-> IF b THEN 1 ELSE 0]

RECURSIVE NaturalChars(_)
\* the decimal digits of the natural number n
NaturalChars(n) ==
  IF n < 10 THEN <<Digits[n + 1]>>
  ELSE NaturalChars(n \div 10) \o <<Digits[(n % 10) + 1]>>

\* value.toString() of a string, an integer or a boolean
ToStringOf(value) ==
  IF value.t = "string" THEN value.s
  ELSE IF value.t = "number"
       THEN IF value.n < 0 THEN <<"-">> \o NaturalChars(0 - value.n)
            ELSE NaturalChars(value.n)
  ELSE IF value.n = 1 THEN <<"t", "r", "u", "e">> ELSE <<"f", "a", "l", "s", "e">>

RECURSIVE LeadingDigits(_)
LeadingDigits(s) ==
  IF s = <<>> \/ IndexIn(Digits, s[1]) = 0 THEN <<>>
  ELSE <<s[1]>> \o LeadingDigits(Tail(s))

RECURSIVE StripZeros(_)
\* the digits s without the zeros at their end
StripZeros(s) ==
  IF s # <<>> /\ s[Len(s)] = "0" THEN StripZeros(SubSeq(s, 1, Len(s) - 1)) ELSE s

\* the parts of a trimmed string read as a decimal numeral: sign, digits,
\* and after a point more digits
WithoutSign(str) == IF str # <<>> /\ str[1] \in {"-", "+"} THEN Tail(str) ELSE str
WholeDigits(str) == LeadingDigits(WithoutSign(str))
AfterWhole(str) == SubSeq(WithoutSign(str), Len(WholeDigits(str)) + 1, Len(WithoutSign(str)))
FractionDigits(str) ==
  IF AfterWhole(str) = <<>> THEN <<>> ELSE LeadingDigits(Tail(AfterWhole(str)))

\* !isNaN(str) for a trimmed, non-empty string of digits, signs, points,
\* blanks and letters that spells neither an exponent, a 0x, 0o or 0b
\* literal nor Infinity
IsNumeral(str) ==
  /\ Len(WholeDigits(str)) + Len(FractionDigits(str)) > 0
  /\ \/ AfterWhole(str) = <<>>
     \/ /\ AfterWhole(str)[1] = "."
        /\ Len(FractionDigits(str)) = Len(AfterWhole(str)) - 1

\* parseFloat(str) of such a numeral that is no integer
Fraction(str) ==
  LET whole == DigitsValue(WholeDigits(str), 0)
      negative == str[1] = "-"
  IN  [t |-> "number",
       s |-> (IF negative /\ whole = 0 THEN <<"-">> ELSE <<>>)
               \o StripZeros(FractionDigits(str)),
       n |-> IF negative THEN 0 - whole ELSE whole]

\* parseValue(value)
parseValue(value) ==
  IF value.t \in {"null", "undefined"} \/ value = Str(<<>>) THEN Str(<<>>)
  ELSE LET str == trim(ToStringOf(value))
       IN  IF str # <<>> /\ IsNumeral(str)
           THEN IF StripZeros(FractionDigits(str)) = <<>>
                THEN ParseNumber(str)
                ELSE Fraction(str)
           ELSE IF toLowerCase(str) = <<"t", "r", "u", "e">> THEN Bool(TRUE)
           ELSE IF toLowerCase(str) = <<"f", "a", "l", "s", "e">> THEN Bool(FALSE)
           ELSE Str(str)

RECURSIVE UpperAfterWhitespace(_)
\* s.replace(/\s+(.)/g, (_, char) => char.toUpperCase())
UpperAfterWhitespace(s) ==
  IF s = <<>> THEN <<>>
  ELSE IF ~IsWhitespace(s[1]) THEN <<s[1]>> \o UpperAfterWhitespace(Tail(s))
  ELSE LET rest == trimStart(s)
       IN  IF rest = <<>> THEN s
           ELSE <<CharToUpperCase(rest[1])>> \o UpperAfterWhitespace(Tail(rest))

\* s.replace(/\s/g, '')
WithoutWhitespace(s) == SelectSeq(s, LAMBDA c : ~IsWhitespace(c))

\* s.replace(/^(.)/, (_, char) => char.toLowerCase())
LowerFirst(s) ==
  IF s = <<>> THEN s ELSE <<CharToLowerCase(s[1])>> \o Tail(s)

\* the key mapRowToObject makes of a header, which is toCamelCase(header)
toCamelCase(header) ==
  LowerFirst(WithoutWhitespace(UpperAfterWhitespace(trim(ToStringOf(header)))))

\* row[index], index counted from 1 here
CellAt(row, index) == IF index \in DOMAIN row THEN row[index] ELSE Undefined

\* obj[key] = value
Assigned(obj, key, value) ==
  [k \in DOMAIN obj \cup {key} |-> IF k = key THEN value ELSE obj[k]]

RECURSIVE MapFromKeepingFirst(_, _, _, _)
\* a headers.forEach that leaves a key alone once it is set
MapFromKeepingFirst(row, headers, index, obj) ==
  IF index > Len(headers) THEN obj
  ELSE MapFromKeepingFirst(row, headers, index + 1,
         IF toCamelCase(headers[index]) \in DOMAIN obj THEN obj
         ELSE Assigned(obj, toCamelCase(headers[index]),
                       parseValue(CellAt(row, index))))

RECURSIVE MapFrom(_, _, _, _)
\* the headers.forEach of mapRowToObject from the header at index on
MapFrom(row, headers, index, obj) ==
  IF index > Len(headers) THEN obj
  ELSE MapFrom(row, headers, index + 1,
               Assigned(obj, toCamelCase(headers[index]),
                        parseValue(CellAt(row, index))))

\* mapRowToObject(row, headers)
mapRowToObject(row, headers) == MapFrom(row, headers, 1, <<>>)

\* mapRowsToObjects(rows, headers)
mapRowsToObjects(rows, headers) ==
  [r \in 1..Len(rows) |-> mapRowToObject(rows[r], headers)]

\* mapSheetToObjects(sheet): sheet is [present, rows], present FALSE for
\* null or undefined
mapSheetToObjects(s) ==
  IF ~s.present \/ Len(s.rows) = 0 THEN <<>>
  ELSE mapRowsToObjects(Tail(s.rows), Head(s.rows))

\* the header rows and the other rows of the sheets
HeaderRows ==
  { <<>>,
    <<Str(<<"I", "d">>), Str(<<" ", "a", " ", " ", "b", " ">>)>>,
    <<Str(<<"I", "d">>), Str(<<"i", "d">>)>>,
    <<Num(1), Str(<<>>)>>,
    <<Str(<<"a", " ", "B">>), Str(<<"a", "B">>), Str(<<"I", "d">>)>> }
DataRows ==
  { <<>>,
    <<Str(<<"1", ".", "0">>)>>,
    <<Str(<<" ", "x", " ">>), Str(<<"T", "R", "U", "E">>)>>,
    <<Num(2), Null, Str(<<"1", ".", "5">>)>>,
    <<Str(<<>>), Str(<<"-", "3">>), Bool(FALSE), Str(<<"x">>)>> }

\* what mapSheetToObjects is called with: nothing, an empty sheet, or a
\* header row and at most MaxRows other rows
NoSheet == [present |-> FALSE, rows |-> <<>>]
Sheets ==
  {NoSheet, [present |-> TRUE, rows |-> <<>>]} \cup
  {[present |-> TRUE, rows |-> <<headers>> \o rows] :
     headers \in HeaderRows,
     rows \in UNION {[1..n -> DataRows] : n \in 0..MaxRows}}

\* no call yet, and what a call returned
NotCalled == [called |-> FALSE, value |-> <<>>]
Returned(value) == [called |-> TRUE, value |-> value]

\* the page holds a sheet
SheetLoaded == sheet \in Sheets /\ objects = NotCalled

\* mapSheetToObjects(sheet)
MapSheetToObjects ==
  /\ ~objects.called
  /\ objects' = Returned(mapSheetToObjects(sheet))
  /\ UNCHANGED <<sheet, clientVars, sigVars, catVars, validatorVars>>

\* the variables of the data mapper, while another part is modelled
MapperIdle == sheet = NoSheet /\ objects = NotCalled

\* the variables of the libraries, while the client is modelled
LibIdle == CategoryIdle /\ ValidatorIdle /\ MapperIdle

(***************************************************************************)
(* Specifications.                                                         *)
(***************************************************************************)
Init == ClientInit /\ SigIdle /\ LibIdle
Next == ClientNext
Spec == Init /\ [][Next]_vars

\* the client when every timer that is set and not cleared fires: the
\* network owes nothing, it may answer late or never
FairSpec == Init /\ [][Next]_vars /\ WF_vars(TimerFires)

\* what the client is constructed with whose configuration is then
\* changed while a request runs
ConfigSpecArgs ==
  { [scriptUrl |-> Url, apiToken |-> "T1", hmacSecret |-> "S1", debug |-> FALSE,
     timeout |-> 0],
    Unnamed }

ConfigSpecInit ==
  /\ \E args \in ConfigSpecArgs, defined \in BOOLEAN : Constructed(args, defined)
  /\ SigIdle
  /\ LibIdle
ConfigNext ==
  \/ Configure
  \/ EnableDebug
  \/ DisableDebug
  \/ RequestListed
  \/ FetchResponds
  \/ FetchFails
  \/ TimerFires
  \/ BodyDecoded
  \/ BodyFails
  \/ Reuse
ConfigSpec == ConfigSpecInit /\ [][ConfigNext]_vars

SigSpecInit == SigInit /\ ClientIdle /\ LibIdle
SigNext ==
  \/ Sign
  \/ Rebuild
SigSpec == SigSpecInit /\ [][SigNext]_vars

\* the category manager and its category bar: the page calls the
\* operations that list, sort, show and hide the categories, while the
\* window is resized
CategorySpecInit == CategoryLoaded /\ ClientIdle /\ SigIdle /\ ValidatorIdle /\ MapperIdle
CategoryNext ==
  \/ CategoryInit
  \/ UpdateProducts
  \/ Refresh
  \/ SortWith
  \/ Expand
  \/ Collapse
  \/ Toggle
  \/ SetCategory
  \/ Clear
  \/ Resize
CategorySpec == CategorySpecInit /\ [][CategoryNext]_vars

\* the category manager and the selection: the page calls the operations
\* that change the products and the current category
SelectionSpecInit == SelectionLoaded /\ ClientIdle /\ SigIdle /\ ValidatorIdle /\ MapperIdle
SelectionNext ==
  \/ SelectionInit
  \/ UpdateProducts
  \/ Refresh
  \/ SetCategory
  \/ RestoreSelection
  \/ ClearSelection
  \/ Clear
SelectionSpec == SelectionSpecInit /\ [][SelectionNext]_vars

\* the product validator: the page changes the configuration and
\* validates batches
ValidatorSpecInit == ValidatorLoaded /\ ClientIdle /\ SigIdle /\ CategoryIdle /\ MapperIdle
ValidatorNext ==
  \/ ValidateBatch
  \/ ValidatorConfigure
  \/ AddRequiredField
  \/ RemoveRequiredField
  \/ AddCustomRule
  \/ RemoveCustomRule
  \/ ResetConfig
ValidatorSpec == ValidatorSpecInit /\ [][ValidatorNext]_vars

\* the data mapper: a sheet is mapped
MapperSpecInit == SheetLoaded /\ ClientIdle /\ SigIdle /\ CategoryIdle /\ ValidatorIdle
MapperNext == MapSheetToObjects
MapperSpec == MapperSpecInit /\ [][MapperNext]_vars

(***************************************************************************)
(* Properties.                                                             *)
(***************************************************************************)
\* the requests of the operation in progress
Requests == 1..Len(reqs)

\* the elements of a list
Range(l) == {l[i] : i \in 1..Len(l)}

\* C1: createSignature is order-independent. Whatever order the caller
\* built the params mapping in, for the same key/value pairs and the same
\* secret the canonical string and the signature are those of the first
\* build.
C1_SignatureOrderIndependent ==
  sigFirst # Unsigned =>
    /\ Range(sigIns) = Range(sigOrig)
    /\ sigLast.string = sigFirst.string
    /\ sigLast.signature = sigFirst.signature

\* C1 witness: a mapping of three keys, rebuilt so that its keys enumerate
\* in another order than at first, was signed again.
C1_Witness ==
  /\ sigFirst # Unsigned
  /\ Len(sigIns) = 3
  /\ ObjectKeys(ObjectFrom(sigIns)) # ObjectKeys(ObjectFrom(sigOrig))
  /\ sigLast = Signing(sigIns, sigSecret)

\* a required field of the configuration is empty
SomeRequiredEmpty(cfg) ==
  \E f \in {"scriptUrl", "apiToken", "hmacSecret"} : cfg[f] = ""

\* C2: a request() called while scriptUrl, apiToken or hmacSecret is
\* empty rejects with the configuration-incomplete error, issues no
\* network call and starts no timer.
C2_IncompleteConfigRejects ==
  \A i \in Requests :
    (reqs[i].pc # "idle" /\ SomeRequiredEmpty(reqs[i].cfg)) =>
      /\ reqs[i].pc = "rejected"
      /\ reqs[i].error.name = "Error"
      /\ reqs[i].error.message = ConfigIncompleteMessage
      /\ ~reqs[i].fetched
      /\ reqs[i].sent = <<>>
      /\ reqs[i].timer = "none"
      /\ i \notin Range(fetchLog)

\* C2 witness: a request was called with only hmacSecret empty, and
\* rejected.
C2_Witness ==
  \E i \in Requests :
    /\ reqs[i].cfg.scriptUrl # "" /\ reqs[i].cfg.apiToken # ""
    /\ reqs[i].cfg.hmacSecret = ""
    /\ reqs[i].pc = "rejected"

\* C3: when the timer of a request fires while its fetch has produced no
\* response, the fetch is aborted and the request rejects with the error
\* 'Request timeout', not with the abort fault.
C3_TimeoutAbortsAndRejects ==
  [][\A i \in Requests :
       (reqs[i].pc = "fetching" /\ reqs[i].timer = "pending"
          /\ i <= Len(reqs') /\ reqs'[i].timer = "fired") =>
         /\ reqs'[i].aborted
         /\ reqs'[i].pc = "rejected"
         /\ reqs'[i].error.name = "Error"
         /\ reqs'[i].error.message = "Request timeout"
         /\ reqs'[i].status = 0
         /\ reqs'[i].delay = reqs[i].cfg.timeout]_vars

\* C3 witness: a request whose fetch was issued was aborted by its timer
\* and rejected for the timeout.
C3_Witness ==
  \E i \in Requests :
    /\ reqs[i].fetched /\ reqs[i].timer = "fired" /\ reqs[i].aborted
    /\ reqs[i].pc = "rejected" /\ reqs[i].error = TimeoutError(i)

\* the query parameters request r appended to the endpoint URL
Appended(r) ==
  SubSeq(r.sent, Len(UrlSearch(r.cfg.scriptUrl)) + 1, Len(r.sent))

\* C4 as claimed: the signature sent equals createSignature, with the
\* configured secret, over the other parameters the request sent.
C4_SignatureCoversOtherParams ==
  \A i \in Requests :
    reqs[i].fetched =>
      /\ HasOwn(Appended(reqs[i]), "signature")
      /\ Get(Appended(reqs[i]), "signature") =
           createSignature(SelectSeq(Appended(reqs[i]), LAMBDA e : e.k # "signature"),
                           reqs[i].cfg.hmacSecret)

\* the keys the client injects, in the order of the object literal and
\* the assignment that follows it
InjectedKeys == <<"token", "timestamp", "referrer", "origin", "signature">>

\* the keys of a list of properties
KeysOf(l) == [i \in 1..Len(l) |-> l[i].k]

\* C5 as claimed: the query lists the caller's keys in insertion order,
\* then token, timestamp, referrer, origin, and signature last.
C5_CallerKeysThenInjected ==
  \A i \in Requests :
    reqs[i].fetched =>
      KeysOf(Appended(reqs[i])) = KeysOf(reqs[i].ins) \o InjectedKeys

RECURSIVE Ascending(_)
\* the array-index keys of the set S in ascending numeric order
Ascending(S) ==
  IF S = {} THEN <<>>
  ELSE LET least == CHOOSE k \in S : \A o \in S : IndexValue(k) <= IndexValue(o)
       IN  <<least>> \o Ascending(S \ {least})

\* C5 amended: after the parameters the endpoint URL already holds, the
\* query lists each key once: the caller's array-index keys in ascending
\* numeric order, then the caller's other keys in insertion order, then
\* those of token, timestamp, referrer, origin, signature that the caller
\* did not supply, in that order.
C5_OwnPropertyOrder ==
  \A i \in Requests :
    reqs[i].fetched =>
      LET callerKeys == KeysOf(reqs[i].ins)
      IN  /\ SubSeq(reqs[i].sent, 1, Len(UrlSearch(reqs[i].cfg.scriptUrl)))
               = UrlSearch(reqs[i].cfg.scriptUrl)
          /\ KeysOf(Appended(reqs[i])) =
               Ascending({k \in Range(callerKeys) : IsArrayIndex(k)})
               \o SelectSeq(callerKeys, LAMBDA k : ~IsArrayIndex(k))
               \o SelectSeq(InjectedKeys, LAMBDA k : k \notin Range(callerKeys))

\* C5 witness: a request was sent whose caller supplied signature and an
\* array-index key after it; signature is not the last parameter.
C5_Witness ==
  \E i \in Requests :
    /\ reqs[i].fetched
    /\ KeysOf(reqs[i].ins) = <<"signature", "10">>
    /\ reqs[i].sent[Len(reqs[i].sent)].k # "signature"

\* the decoded body data is an object whose status is "success"
SaysSuccess(data) ==
  data.type = "object" /\ \E e \in Range(data.props) : e.k = "status" /\ e.v = "success"

\* C6: when the response is 2xx and its decoded body has status
\* "success", request() resolves with that decoded body, unchanged.
C6_SuccessResolvesWithBody ==
  \A i \in Requests :
    (ResponseOk(reqs[i].status) /\ SaysSuccess(reqs[i].data)) =>
      /\ reqs[i].pc = "resolved"
      /\ reqs[i].result = reqs[i].data
      /\ reqs[i].result = reqs[i].wire
      /\ reqs[i].error = NoError
      /\ call.kind = "request" => call.state = "resolved"

\* C6 witness: a request resolved with a body that holds more than status
\* and data.
C6_Witness ==
  \E i \in Requests :
    /\ reqs[i].pc = "resolved" /\ reqs[i].status = 200
    /\ reqs[i].data = SuccessBody2 /\ reqs[i].result = SuccessBody2

\* the non-empty message strings of the decoded body data
Messages(data) == {e.v : e \in {x \in Range(data.props) : x.k = "message"}} \ {""}

\* C7: when the response is 2xx and its decoded body is an object whose
\* status is not "success", request() rejects with an Error whose message
\* is the body's message, or 'Request failed' when the body has no message
\* or an empty one; it does not resolve.
C7_NonSuccessRejectsWithMessage ==
  \A i \in Requests :
    (ResponseOk(reqs[i].status) /\ reqs[i].data.type = "object"
       /\ ~SaysSuccess(reqs[i].data)) =>
      /\ reqs[i].pc = "rejected"
      /\ reqs[i].result = NoBody
      /\ reqs[i].error.name = "Error"
      /\ IF Messages(reqs[i].data) = {}
         THEN reqs[i].error.message = "Request failed"
         ELSE reqs[i].error.message \in Messages(reqs[i].data)
      /\ call.kind = "request" => call.state = "rejected"

\* C7 witness: a request whose 200 response decoded to {status: "error",
\* message: "bad token"} rejected with the message "bad token".
C7_Witness ==
  \E i \in Requests :
    /\ reqs[i].status = 200 /\ reqs[i].data = BadTokenBody
    /\ reqs[i].pc = "rejected" /\ reqs[i].error.message = "bad token"

\* C8: when the response is not 2xx, request() rejects with the HTTP error
\* that carries the response's status code; the body is not decoded,
\* whatever it holds.
C8_NonOkRejectsWithStatus ==
  \A i \in Requests :
    (reqs[i].status # 0 /\ ~(reqs[i].status \in 200..299)) =>
      /\ reqs[i].pc = "rejected"
      /\ reqs[i].error.name = "Error"
      /\ reqs[i].error.message = "HTTP error! Status: " \o ToString(reqs[i].status)
      /\ reqs[i].data = NoBody
      /\ reqs[i].result = NoBody

\* C8 witness: a 404 response whose body says "success" was rejected
\* with the HTTP error.
C8_Witness ==
  \E i \in Requests :
    /\ reqs[i].status = 404 /\ reqs[i].wire = SuccessBody
    /\ reqs[i].pc = "rejected"
    /\ reqs[i].error.message = "HTTP error! Status: 404"

\* the requests that rejected, in the order they did
Failures == SelectSeq(settleLog, LAMBDA i : reqs[i].pc = "rejected")

\* C9: requestAll rejects as soon as a first request of the list rejects,
\* with that request's error, whatever the other requests are doing; it
\* resolves only if every request resolved.
C9_RequestAllFailsFast ==
  call.kind = "requestAll" =>
    /\ Failures # <<>> =>
         call.state = "rejected" /\ call.error = reqs[Failures[1]].error
    /\ call.state = "rejected" => Failures # <<>>
    /\ call.state = "resolved" => \A i \in Requests : reqs[i].pc = "resolved"
    /\ (\A i \in Requests : reqs[i].pc = "resolved") => call.state = "resolved"

\* C9 witness: requestAll rejected with the error of its second request
\* while its first request was still waiting for its response.
C9_Witness ==
  /\ call.kind = "requestAll" /\ call.state = "rejected"
  /\ Len(reqs) = 2
  /\ reqs[1].pc = "fetching"
  /\ reqs[2].pc = "rejected" /\ call.error = reqs[2].error

\* C10: requestAll issues the fetch of every request of the list before
\* the response of any of them is handled, and when all resolve its
\* result holds the body of request i at position i, whatever the order
\* in which the requests completed.
C10_RequestAllFanOutAndOrder ==
  call.kind = "requestAll" =>
    /\ (\E i \in Requests : reqs[i].status # 0) =>
         /\ fetchLog = [j \in 1..Len(reqs) |-> j]
         /\ \A j \in Requests : reqs[j].fetched
    /\ call.state = "resolved" =>
         /\ Len(call.values) = Len(reqs)
         /\ \A i \in Requests :
              call.values[i] = reqs[i].wire /\ SaysSuccess(call.values[i])

\* C10 witness: requestAll over two requests resolved; the second request
\* completed first and with another body than the first.
C10_Witness ==
  /\ call.kind = "requestAll" /\ call.state = "resolved"
  /\ settleLog = <<2, 1>>
  /\ reqs[1].wire # reqs[2].wire
  /\ call.values = <<reqs[1].wire, reqs[2].wire>>

\* the requests of the operation that are in flight: called and not settled
InFlight == {i \in Requests : reqs[i].pc \in {"fetching", "reading"}}

\* the requests of the operation that were called
Called == {i \in Requests : reqs[i].pc # "idle"}

\* C11: during requestSequential at most one request is in flight; the
\* request for element i + 1 is not called, and its fetch not issued,
\* before the request for element i resolved; the results are pushed in
\* input order, and the operation resolves with the body of element i at
\* position i.
C11_SequentialOneAtATime ==
  call.kind = "requestSequential" =>
    /\ Cardinality(InFlight) <= 1
    /\ \A i \in Requests :
         (i > 1 /\ (reqs[i].pc # "idle" \/ reqs[i].fetched \/ i \in Range(fetchLog))) =>
           reqs[i - 1].pc = "resolved"
    /\ \A k \in 1..Len(fetchLog) : \A l \in 1..Len(fetchLog) :
         k < l => fetchLog[k] < fetchLog[l]
    /\ Len(call.values) = Cardinality({i \in Requests : reqs[i].pc = "resolved"})
    /\ \A j \in 1..Len(call.values) :
         reqs[j].pc = "resolved" /\ call.values[j] = reqs[j].wire
    /\ call.state = "resolved" <=> \A i \in Requests : reqs[i].pc = "resolved"

\* C11 witness: requestSequential over two params resolved with two
\* different bodies, each at the position of its params.
C11_Witness ==
  /\ call.kind = "requestSequential" /\ call.state = "resolved"
  /\ Len(reqs) = 2 /\ fetchLog = <<1, 2>>
  /\ reqs[1].wire # reqs[2].wire
  /\ call.values = <<reqs[1].wire, reqs[2].wire>>

\* C12: in requestSequential, when the request for element i rejects,
\* the operation rejects with the error of that request, it does not
\* resolve with the results pushed before, and no request is called and
\* no fetch issued for any element after i.
C12_SequentialStopsAtFailure ==
  call.kind = "requestSequential" =>
    \A i \in Requests :
      reqs[i].pc = "rejected" =>
        /\ call.state = "rejected"
        /\ call.error = reqs[i].error
        /\ \A j \in Requests :
             j > i => /\ reqs[j].pc = "idle"
                      /\ ~reqs[j].fetched /\ reqs[j].calls = 0
                      /\ reqs[j].timer = "none"
                      /\ j \notin Range(fetchLog)
        /\ \A j \in Requests : j < i => reqs[j].pc = "resolved"

\* C12 witness: the second request of requestSequential rejected after
\* the first had resolved and its result had been pushed.
C12_Witness ==
  /\ call.kind = "requestSequential" /\ call.state = "rejected"
  /\ Len(reqs) = 2
  /\ reqs[1].pc = "resolved" /\ call.values = <<reqs[1].result>>
  /\ reqs[2].pc = "rejected" /\ reqs[2].fetched /\ call.error = reqs[2].error

\* C13: no request() calls fetch more than once, whatever its outcome,
\* and an operation over N params issues at most N fetches, no two of
\* them for the same params.
C13_NoRetries ==
  /\ \A i \in Requests : reqs[i].calls <= 1
  /\ Len(fetchLog) <= Len(reqs)
  /\ \A k \in 1..Len(fetchLog) : \A l \in 1..Len(fetchLog) :
       k # l => fetchLog[k] # fetchLog[l]
  /\ \A i \in Requests : reqs[i].fetched <=> i \in Range(fetchLog)

\* C13 witness: a request that got a 500 response rejected, after one
\* fetch, and its timer is gone.
C13_Witness ==
  \E i \in Requests :
    /\ reqs[i].status = 500 /\ reqs[i].pc = "rejected"
    /\ reqs[i].calls = 1 /\ reqs[i].timer = "cleared"
    /\ Len(SelectSeq(fetchLog, LAMBDA j : j = i)) = 1

\* the errors of the kinds ConfigurationIncomplete, RequestTimeout,
\* HttpError and RequestFailed that request i can reject with, and the
\* network fault
ListedErrors(i) ==
  {ConfigIncompleteError(i), TimeoutError(i), NetworkFault(i)}
  \cup {[name |-> "Error", message |-> "HTTP error! Status: " \o ToString(st), req |-> i] :
          st \in StatusCodes}
  \cup {[name |-> "Error", message |-> m, req |-> i] :
          m \in Messages(reqs[i].data) \cup {"Request failed"}}

\* the faults other than network faults that are thrown inside the try
\* block of request i
OtherFaults(i) ==
  {[name |-> "TypeError", message |-> "Invalid URL", req |-> i],
   [name |-> "SyntaxError", message |-> "Unexpected token", req |-> i],
   [name |-> "TypeError", message |-> "Cannot read properties of null", req |-> i]}

\* C14 as claimed: request() resolves only on a 2xx response whose body
\* has status "success", and every rejection is ConfigurationIncomplete,
\* RequestTimeout, HttpError, RequestFailed or the network fault.
C14_OnlyListedRejections ==
  \A i \in Requests :
    /\ reqs[i].pc = "resolved" =>
         ResponseOk(reqs[i].status) /\ SaysSuccess(reqs[i].data)
    /\ reqs[i].pc = "rejected" => reqs[i].error \in ListedErrors(i)

\* C14 amended: request() resolves only on a 2xx response whose body has
\* status "success"; an incomplete configuration, a timeout, a non-2xx
\* status, a body whose status is not "success" each make it reject,
\* and every rejection is ConfigurationIncomplete, RequestTimeout,
\* HttpError, RequestFailed, the network fault, or another fault thrown
\* inside the try block: that of a scriptUrl that is no URL, of a body
\* that is not JSON, of a body that is JSON null.
C14_NoFailureSwallowed ==
  \A i \in Requests :
    /\ reqs[i].pc = "resolved" =>
         /\ ResponseOk(reqs[i].status) /\ SaysSuccess(reqs[i].data)
         /\ reqs[i].result = reqs[i].data /\ reqs[i].error = NoError
    /\ reqs[i].pc = "rejected" =>
         /\ reqs[i].result = NoBody
         /\ reqs[i].error \in ListedErrors(i) \cup OtherFaults(i)
    /\ (reqs[i].pc # "idle" /\ SomeRequiredEmpty(reqs[i].cfg)) =>
         reqs[i].pc = "rejected" /\ reqs[i].error.message = ConfigIncompleteMessage
    /\ (reqs[i].pc # "idle" /\ ~SomeRequiredEmpty(reqs[i].cfg)
          /\ reqs[i].cfg.scriptUrl = BadUrl) =>
         reqs[i].pc = "rejected" /\ reqs[i].error.message = "Invalid URL"
    /\ (reqs[i].status # 0 /\ ~(reqs[i].status \in 200..299)) =>
         reqs[i].pc = "rejected"
         /\ reqs[i].error.message = "HTTP error! Status: " \o ToString(reqs[i].status)
    /\ (reqs[i].aborted /\ reqs[i].status = 0) =>
         reqs[i].pc = "rejected"
    /\ (reqs[i].data.type = "object" /\ ~SaysSuccess(reqs[i].data)) =>
         reqs[i].pc = "rejected"
         /\ reqs[i].error.message \in Messages(reqs[i].data) \cup {"Request failed"}
    /\ reqs[i].data.type = "null" =>
         reqs[i].pc = "rejected" /\ reqs[i].error.name = "TypeError"

\* C14 witness: a request whose 200 response carried the body null
\* rejected with the TypeError of reading its status.
C14_Witness ==
  \E i \in Requests :
    /\ reqs[i].status = 200 /\ reqs[i].wire = JsonNull /\ reqs[i].data = JsonNull
    /\ reqs[i].pc = "rejected"
    /\ reqs[i].error.name = "TypeError"
    /\ reqs[i].error \notin ListedErrors(i)

\* C15: request() rejects with the error 'Request timeout' only when its
\* own timer fired while its fetch was pending and aborted it; a fault of
\* the fetch call or of decoding the body that is not that abort is what
\* the request rejects with, unchanged.
C15_TimeoutOnlyFromOwnTimer ==
  \A i \in Requests :
    /\ (reqs[i].error.name = "Error" /\ reqs[i].error.message = "Request timeout") =>
         /\ reqs[i].pc = "rejected"
         /\ reqs[i].timer = "fired" /\ reqs[i].aborted
         /\ reqs[i].fetched /\ reqs[i].status = 0
         /\ reqs[i].error.req = i
    /\ reqs[i].error.name # "AbortError"
    /\ (reqs[i].pc = "rejected" /\ reqs[i].fetched /\ reqs[i].status = 0
          /\ reqs[i].error.message # "Request timeout") =>
         reqs[i].error = [name |-> "TypeError", message |-> "Failed to fetch", req |-> i]
    /\ (reqs[i].pc = "rejected" /\ ResponseOk(reqs[i].status) /\ reqs[i].data = NoBody) =>
         \/ reqs[i].error = [name |-> "TypeError", message |-> "Failed to fetch", req |-> i]
         \/ /\ reqs[i].wire = Undecodable
            /\ reqs[i].error =
                 [name |-> "SyntaxError", message |-> "Unexpected token", req |-> i]

\* C15 witness: the fetch of a request failed with a network fault, the
\* request rejected with that fault, and its timer fired afterwards
\* without turning the rejection into a timeout.
C15_Witness ==
  \E i \in Requests :
    /\ reqs[i].pc = "rejected" /\ reqs[i].status = 0
    /\ reqs[i].timer = "fired" /\ reqs[i].aborted
    /\ reqs[i].error = NetworkFault(i)

\* the fields that must be set for a request to be sent
RequiredFields == {"scriptUrl", "apiToken", "hmacSecret"}

\* how many of the warnings w are the warning about field f
WarningsAbout(w, f) ==
  Len(SelectSeq(w, LAMBDA m : m = "GoogleSheetsSecureAPI: " \o f \o " not configured"))

\* C16: with CryptoJS defined the constructor returns a client for every
\* argument, having warned exactly once about each of scriptUrl,
\* apiToken, hmacSecret that the argument leaves out or empty and about
\* nothing else; with CryptoJS undefined it throws, whatever the argument.
C16_ConstructionWarnsOrThrows ==
  confOp.name = "constructor" =>
    /\ cryptoJS =>
         /\ confOp.thrown = NoError
         /\ Exists
         /\ \A f \in RequiredFields :
              WarningsAbout(confOp.warnings, f) = IF confOp.value[f] = "" THEN 1 ELSE 0
         /\ Len(confOp.warnings) =
              Cardinality({f \in RequiredFields : confOp.value[f] = ""})
    /\ ~cryptoJS =>
         /\ confOp.thrown.name = "Error"
         /\ confOp.thrown.message # ""
         /\ ~Exists
         /\ call = NoCall /\ reqs = <<>>

\* C16 witness: with CryptoJS defined, a client was constructed without
\* scriptUrl and hmacSecret, with two warnings, and a request was then
\* made on it.
C16_Witness ==
  /\ confOp.name = "constructor" /\ cryptoJS
  /\ confOp.value.scriptUrl = "" /\ confOp.value.apiToken # ""
  /\ confOp.value.hmacSecret = ""
  /\ Len(confOp.warnings) = 2
  /\ call.kind = "request"

\* C17: configure(partial) leaves every field that partial names with
\* the value partial gives it and every other field as it was; a step of
\* request() or of the operation in progress changes no field of the
\* configuration.
C17_ConfigureMergesShallow ==
  [][/\ (confOp'.name = "configure" /\ (confOp' # confOp \/ config' # config)) =>
          \A f \in ConfigFields :
            config'[f] = IF f \in confOp'.named THEN confOp'.value[f] ELSE config[f]
     /\ (call' # call \/ reqs' # reqs) => config' = config]_vars

\* C17 witness: while a request was waiting for its response,
\* configure({hmacSecret, timeout}) replaced those two fields and left
\* scriptUrl and apiToken as constructed.
C17_Witness ==
  /\ confOp.name = "configure" /\ confOp.named = {"hmacSecret", "timeout"}
  /\ config.hmacSecret = "S2" /\ config.timeout = 5
  /\ config.scriptUrl = Url /\ config.apiToken = "T1"
  /\ Len(reqs) = 1 /\ reqs[1].pc = "fetching"

\* what a request execution does and gives, its console.log calls left
\* aside
Behaviour(r) ==
  [pc |-> r.pc, sent |-> r.sent, fetched |-> r.fetched, calls |-> r.calls,
   timer |-> r.timer, delay |-> r.delay, aborted |-> r.aborted,
   status |-> r.status, data |-> r.data, result |-> r.result, error |-> r.error]

\* C18: the debug flag changes nothing of what a request does: the
\* request a client sends, its deadline and what it settles with are
\* those of a client whose debug flag is the opposite; enableDebug and
\* disableDebug set debug and change no other field, and no request.
C18_DebugHasNoEffect ==
  [][/\ \A i \in 1..Len(reqs') :
          ((i > Len(reqs) \/ reqs[i].pc = "idle") /\ reqs'[i].pc # "idle") =>
            Behaviour(reqs'[i]) =
              Behaviour(StartRequest(i, reqs'[i].ins,
                                     [reqs'[i].cfg EXCEPT !.debug = ~reqs'[i].cfg.debug],
                                     reqs'[i].at))
     /\ \A i \in Requests :
          (reqs[i].pc = "reading" /\ i <= Len(reqs') /\ reqs'[i].data # NoBody) =>
            Behaviour(reqs'[i]) =
              Behaviour(AfterJson(reqs[i], i, reqs[i].wire, ~config.debug))
     /\ (confOp'.name \in {"enableDebug", "disableDebug"}
           /\ (confOp' # confOp \/ config' # config)) =>
          /\ config'.debug = (confOp'.name = "enableDebug")
          /\ \A f \in ConfigFields \ {"debug"} : config'[f] = config[f]
          /\ reqs' = reqs /\ call' = call]_vars

\* C18 witness: a request started with debug off resolved after
\* enableDebug was called, with the success log as its only log.
C18_Witness ==
  /\ confOp.name = "enableDebug"
  /\ Len(reqs) = 1 /\ reqs[1].pc = "resolved"
  /\ ~reqs[1].cfg.debug /\ config.debug
  /\ reqs[1].logged = <<"Request successful:">>
  /\ reqs[1].result = reqs[1].wire

\* the secret that the signature request r sent was made with is secret
SignedWith(r, secret) ==
  Get(Appended(r), "signature") =
    createSignature(RequestParams(r.params, r.cfg, r.at), secret)

C20_TimeoutPositive ==
  /\ config.timeout \in Nat \ {0}
  /\ \A i \in Requests : reqs[i].timer # "none" => reqs[i].delay > 0

\* C21 as claimed: with timers that fire, a request() that was called
\* with a complete configuration and is pending settles, whatever the
\* network does.
C21_RequestEventuallySettles ==
  (call.kind = "request" /\ call.state = "pending"
     /\ ~SomeRequiredEmpty(reqs[1].cfg))
    ~> (call.state # "pending")

\* C22 as claimed: once a request() has settled, by whatever path, its
\* timeout timer is not pending any more: it fired or was cleared.
C22_NoTimerOutlivesRequest ==
  \A i \in Requests :
    Settled(reqs[i]) => reqs[i].timer # "pending"

\* how many of the properties l have the key k
Occurrences(l, k) == Cardinality({j \in 1..Len(l) : l[j].k = k})

\* the parameters the request r sent hold the injected values
SendsInjected(r) ==
  LET sent == Appended(r)
  IN  /\ \A k \in {"token", "timestamp", "referrer", "origin"} :
           Occurrences(sent, k) = 1
      /\ Get(sent, "token") = r.cfg.apiToken
      /\ Get(sent, "timestamp") = ToString(r.at)
      /\ Get(sent, "referrer") = PageOrigin
      /\ Get(sent, "origin") = PageOrigin

\* the request r sent the caller's keys, but for those in reserved, once
\* and with the caller's value
SendsCallerKeys(r, reserved) ==
  \A j \in 1..Len(r.ins) :
    r.ins[j].k \notin reserved =>
      /\ Occurrences(Appended(r), r.ins[j].k) = 1
      /\ Get(Appended(r), r.ins[j].k) = Get(ObjectFrom(r.ins), r.ins[j].k)

\* C23 as claimed: token, timestamp, referrer and origin of every request
\* sent hold the injected values, also when params has keys of those
\* names, and every other key of params is sent with the caller's value.
C23_InjectedOverrideOthersKept ==
  \A i \in Requests :
    reqs[i].fetched =>
      /\ SendsInjected(reqs[i])
      /\ SendsCallerKeys(reqs[i], {"token", "timestamp", "referrer", "origin"})

\* C23, amended: token, timestamp, referrer and origin of every request
\* sent hold the injected values (the token configured and the time when
\* the call started, the page origin twice), also when params has keys of
\* those names; every key of params other than these four and signature
\* is sent with the caller's value.
C23_InjectedOverrideOthersButSignatureKept ==
  \A i \in Requests :
    reqs[i].fetched =>
      /\ SendsInjected(reqs[i])
      /\ SendsCallerKeys(reqs[i],
                         {"token", "timestamp", "referrer", "origin", "signature"})

\* a request went out whose caller had set token, timestamp, referrer and
\* origin to values of its own, next to a key of its own
C23_Witness ==
  \E i \in Requests :
    /\ reqs[i].fetched
    /\ \A k \in {"token", "timestamp", "referrer", "origin"} :
         /\ HasOwn(ObjectFrom(reqs[i].ins), k)
         /\ Get(ObjectFrom(reqs[i].ins), k) # Get(Appended(reqs[i]), k)
    /\ HasOwn(ObjectFrom(reqs[i].ins), "action")
    /\ Get(Appended(reqs[i]), "action") = "x"
    /\ reqs[i].at = 1

\* C24 as claimed: whenever the category manager is expanded,
\* visibleCategories equals allCategories and hiddenCategories is empty.
C24_ExpandedShowsAll ==
  state.isExpanded =>
    /\ state.visibleCategories = state.allCategories
    /\ state.hiddenCategories = <<>>

\* visibleCategories followed by hiddenCategories is allCategories
VisibleThenHiddenIsAll ==
  state.visibleCategories \o state.hiddenCategories = state.allCategories

C26_CurrentCategoryExists ==
  \/ state.currentCategory = catConfig.allOptionValue
  \/ Includes(state.allCategories, state.currentCategory)

\* the count extractCategories kept for the category c
ExtractedCount(c) ==
  LET m == CategoriesMap(state.products, catConfig, Len(state.products))
  IN  m[CHOOSE j \in 1..Len(m) : m[j].name = c].count

\* the categories of allCategories for which filterProducts returns the
\* product at position i
ReturnedFor(i) ==
  {j \in 1..Len(state.allCategories) :
     Includes(filterProducts(state, catConfig, state.allCategories[j]), i)}

\* C27 as claimed: for every category c of allCategories the count that
\* getCategoriesWithCount reports equals getCategoryCount(c) and the number
\* of products extracted as c, and filterProducts returns every product
\* that has a category for exactly one c.
C27_CountsAndFilterAgree ==
  /\ \A j \in 1..Len(state.allCategories) :
       /\ getCategoriesWithCount(state, catConfig)[j].count =
            getCategoryCount(state, catConfig, state.allCategories[j])
       /\ getCategoryCount(state, catConfig, state.allCategories[j]) =
            ExtractedCount(state.allCategories[j])
  /\ \A i \in 1..Len(state.products) :
       HasCategory(state.products[i]) => Cardinality(ReturnedFor(i)) = 1


\* the indexes of the array of the last validateBatch call
BatchIndexes == 0..(Len(validatorCall.products.items) - 1)
\* the indexes its invalid list carries
InvalidIndexes ==
  {validatorCall.result.invalid[j].index : j \in DOMAIN validatorCall.result.invalid}
\* the indexes left for its valid list, in input order
RECURSIVE InOrder(_)
InOrder(indexes) ==
  IF indexes = {} THEN <<>>
  ELSE LET least == CHOOSE i \in indexes : \A j \in indexes : i <= j
       IN  <<least>> \o InOrder(indexes \ {least})
ValidIndexes == InOrder(BatchIndexes \ InvalidIndexes)

\* C28: with throwErrors off, validateBatch of an array returns; every index
\* of the array is carried by exactly one entry of invalid or stands for one
\* entry of valid, the valid entries are the validated products of their
\* indexes in input order, an invalid entry carries the product at its index
\* and a non-empty error list, and stats.valid + stats.invalid = stats.total =
\* products.length; a non-array yields empty lists and all-zero counts
C28_BatchPartitionsInput ==
  (validatorCall.op = "validateBatch" /\ ~validatorConfig.behavior.throwErrors) =>
    LET products == validatorCall.products
        result == validatorCall.result
    IN  /\ ~result.threw
        /\ products.isArray =>
              /\ InvalidIndexes \subseteq BatchIndexes
              /\ \A j, k \in DOMAIN result.invalid :
                    j < k => result.invalid[j].index < result.invalid[k].index
              /\ \A j \in DOMAIN result.invalid :
                    /\ result.invalid[j].errors # <<>>
                    /\ result.invalid[j].product
                         = products.items[result.invalid[j].index + 1].value
              /\ Len(result.valid) = Len(ValidIndexes)
              /\ \A k \in DOMAIN result.valid :
                    /\ k <= Len(ValidIndexes)
                    /\ products.items[ValidIndexes[k] + 1].present
                    /\ result.valid[k]
                         = validate(products.items[ValidIndexes[k] + 1].value,
                                    validatorConfig).product
              /\ result.stats.valid = Len(result.valid)
              /\ result.stats.invalid = Len(result.invalid)
              /\ result.stats.valid + result.stats.invalid = result.stats.total
              /\ result.stats.total = Len(products.items)
        /\ ~products.isArray =>
              /\ result.valid = <<>> /\ result.invalid = <<>>
              /\ result.stats.total = 0 /\ result.stats.valid = 0
              /\ result.stats.invalid = 0

\* C29: after resetConfig the configuration is the one of the loaded script:
\* the same required fields, the same rules for every field, the same
\* behaviour settings, and no custom rules
C29_ResetRestoresLoaded ==
  validatorCall.op = "resetConfig" =>
    /\ validatorConfig.requiredFields = LoadedValidatorConfig.requiredFields
    /\ DOMAIN validatorConfig.rules = DOMAIN LoadedValidatorConfig.rules
    /\ \A field \in DOMAIN LoadedValidatorConfig.rules :
          field \in DOMAIN validatorConfig.rules
            => validatorConfig.rules[field] = LoadedValidatorConfig.rules[field]
    /\ validatorConfig.behavior = LoadedValidatorConfig.behavior
    /\ CustomRules(validatorConfig) = <<>>


\* the header row and the other rows of the mapped sheet, and the columns
\* of the header row
SheetHeaders == Head(sheet.rows)
SheetRows == Tail(sheet.rows)
Columns == DOMAIN SheetHeaders
\* the last column whose header has the key of the header at column c
LastWithKeyOf(c) ==
  CHOOSE d \in Columns :
    /\ toCamelCase(SheetHeaders[d]) = toCamelCase(SheetHeaders[c])
    /\ \A e \in Columns :
          toCamelCase(SheetHeaders[e]) = toCamelCase(SheetHeaders[c]) => e <= d
\* a missing or empty sheet gives the empty list, any other sheet one object
\* per row below the header row, whose keys are the keys of the headers
OneObjectPerRow ==
  /\ (~sheet.present \/ sheet.rows = <<>>) => objects.value = <<>>
  /\ (sheet.present /\ sheet.rows # <<>>) =>
        /\ Len(objects.value) = Len(SheetRows)
        /\ \A r \in DOMAIN objects.value :
              DOMAIN objects.value[r] = {toCamelCase(SheetHeaders[c]) : c \in Columns}

\* C30 as stated: mapSheetToObjects returns the empty list for a missing or
\* empty sheet and otherwise one object per row below the header row, in row
\* order, with a key for every header, the value under the key of a header
\* being the parsed cell of the row at the column of that header (the empty
\* string where the row is too short)
C30_ValueAtHeaderColumn ==
  objects.called =>
    /\ OneObjectPerRow
    /\ (sheet.present /\ sheet.rows # <<>>) =>
          \A r \in DOMAIN objects.value : \A c \in Columns :
            objects.value[r][toCamelCase(SheetHeaders[c])]
              = parseValue(CellAt(SheetRows[r], c))

\* C30 holds when, for headers that have the same key, the value under that
\* key is the parsed cell at the column of the last of them
C30_ValueAtLastColumnOfKey ==
  objects.called =>
    /\ OneObjectPerRow
    /\ (sheet.present /\ sheet.rows # <<>>) =>
          \A r \in DOMAIN objects.value : \A c \in Columns :
            objects.value[r][toCamelCase(SheetHeaders[c])]
              = parseValue(CellAt(SheetRows[r], LastWithKeyOf(c)))

\* a sheet was mapped in which two headers have the same key and a row has
\* different cells under them, and in which a row is shorter than the
\* header row
C30_Witness ==
  /\ objects.called
  /\ sheet.present /\ Len(sheet.rows) > 2
  /\ \E r \in DOMAIN SheetRows : \E c, d \in Columns :
        /\ c < d
        /\ toCamelCase(SheetHeaders[c]) = toCamelCase(SheetHeaders[d])
        /\ parseValue(CellAt(SheetRows[r], c)) # parseValue(CellAt(SheetRows[r], d))
  /\ \E r \in DOMAIN SheetRows : Len(SheetRows[r]) < Len(SheetHeaders)

=============================================================================
